---- MODULE Spec2Model ----
(***************************************************************************)
(* Model of FinancialReportsService (src/src/financial-reports-service.ts, *)
(* the revision of lines 475-1167): the report store, the OCR phase of     *)
(* processAndCacheReport and the text parser.                              *)
(*                                                                         *)
(* Text is modelled at the level the parser's regular expressions see it:  *)
(* a text is a sequence of lines (text.split('\n')), a line a sequence of  *)
(* tokens, a token one lexeme a regular expression of the source matches   *)
(* as a unit.  A token's character offset is its index in the text, one    *)
(* position per token and one per newline.  Amounts are whole numbers.     *)
(***************************************************************************)
EXTENDS Integers, Sequences, FiniteSets, TLC

VARIABLES
    reports,    \* FinancialReportsService.reports: key -> FinancialReport
    calls,      \* the processAndCacheReport / getReportByQuarter /
                \* getAvailableReports invocations, by caller
    ptext,      \* parser harness: the text handed to parseFinancialData
    pdata,      \* parser harness: the ExtractedFinancialData it returned
    plocals,    \* parser harness: quarterColumns and targetColumn of the run
    pstage      \* parser harness: "input" | "parsed" | "off"

vars == <<reports, calls, ptext, pdata, plocals, pstage>>

(***************************************************************************)
(* Tokens.                                                                 *)
(*   w       a run of words (a row label, a header)                        *)
(*   cur     $v                                                            *)
(*   par     (v)                                                           *)
(*   dpar    ($v)                                                          *)
(*   pard    $(v)                                                          *)
(*   range   M/D/YY - M/D/YY                                               *)
(*   through Through YYYY                                                  *)
(*   hold    SYM (q @ $v)                                                  *)
(***************************************************************************)
W(s) == [k |-> "w", s |-> s, v |-> 0, q |-> 0]
Cur(v) == [k |-> "cur", s |-> "", v |-> v, q |-> 0]
Par(v) == [k |-> "par", s |-> "", v |-> v, q |-> 0]
DPar(v) == [k |-> "dpar", s |-> "", v |-> v, q |-> 0]
ParD(v) == [k |-> "pard", s |-> "", v |-> v, q |-> 0]
Range(s) == [k |-> "range", s |-> s, v |-> 0, q |-> 0]
Through(s) == [k |-> "through", s |-> s, v |-> 0, q |-> 0]
Hold(s, q, v) == [k |-> "hold", s |-> s, v |-> v, q |-> q]

EmptyLine == <<>>
\* '' : the empty string splits into one empty line
EmptyText == <<EmptyLine>>

Abs(x) == IF x < 0 THEN -x ELSE x
Min(a, b) == IF a < b THEN a ELSE b

\* An optional number (number | null, number | undefined): <<>> or <<v>>.
None == <<>>
Some(v) == <<v>>

(***************************************************************************)
(* The substrings the source looks for inside a run of words               *)
(* (String.includes and the unanchored item patterns).                     *)
(***************************************************************************)
Contains(s) ==
    CASE s = "Total Income" -> {"Total Income", "Total", "Income"}
      [] s = "Total Expenses" -> {"Total Expenses", "Total"}
      [] s = "Net" -> {"Net"}
      [] s = "Net Income" -> {"Net", "Income"}
      [] s = "ENS DAO Service Provider Stream" -> {"ens_dao_stream"}
      [] s = "ENS DAO Service Provider Vesting" -> {"ens_dao_vesting"}
      [] s = "MASK Network Grant" -> {"mask_grant", "Net"}
      [] s = "Realized Gain/Loss" -> {"realized_gain_loss", "z"}
      [] s = "Total Realized Gain/Loss" -> {"realized_gain_loss", "Total", "z"}
      [] s = "Accounting" -> {"accounting"}
      [] s = "Bounties" -> {"bounties"}
      [] s = "Conferences & Travel" -> {"conferences_travel"}
      [] s = "ETH Gas Transactions" -> {"eth_gas"}
      [] s = "Legal Services" -> {"legal_services", "services"}
      [] s = "Other" -> {"other"}
      [] s = "POAP" -> {"poap"}
      [] s = "Services" -> {"services"}
      [] s = "Team" -> {"team"}
      [] s = "Total Team" -> {"team", "Total"}
      [] s = "Summary of Assets & Liabilities" -> {"Summary of Assets & Liabilities"}
      [] s = "USDC" -> {"USDC"}
      [] s = "USDCx" -> {"USDCx"}
      [] s = "Unreimbursed Admin Costs" -> {"Unreimbursed"}
      [] OTHER -> {}

\* line.includes(p), pattern.test(line)
LineHas(line, p) ==
    \E j \in 1..Len(line) : line[j].k = "w" /\ p \in Contains(line[j].s)

(***************************************************************************)
(* extractAllNumbersFromLine: every currency match of the line, then every *)
(* parenthesized match, negated.                                           *)
(***************************************************************************)
RECURSIVE CurrencyMatches(_)
CurrencyMatches(line) ==
    IF line = <<>> THEN <<>>
    ELSE (IF Head(line).k \in {"cur", "dpar", "hold"} THEN <<Head(line).v>> ELSE <<>>)
         \o CurrencyMatches(Tail(line))

RECURSIVE NegativeMatches(_)
NegativeMatches(line) ==
    IF line = <<>> THEN <<>>
    ELSE (IF Head(line).k \in {"par", "dpar", "pard"} THEN <<-Head(line).v>> ELSE <<>>)
         \o NegativeMatches(Tail(line))

extractAllNumbersFromLine(line) == CurrencyMatches(line) \o NegativeMatches(line)

(***************************************************************************)
(* detectQuarterColumns: the matches of the date-range pattern, then those *)
(* of the Through pattern, sorted by their offset in the text.             *)
(***************************************************************************)
RECURSIVE LineStart(_, _)
LineStart(text, i) ==
    IF i = 1 THEN 0 ELSE LineStart(text, i - 1) + Len(text[i - 1]) + 1

RECURSIVE MatchesFrom(_, _, _, _)
MatchesFrom(text, kind, i, j) ==
    IF i > Len(text) THEN <<>>
    ELSE IF j > Len(text[i]) THEN MatchesFrom(text, kind, i + 1, 1)
    ELSE (IF text[i][j].k = kind
          THEN <<[dateRange |-> text[i][j].s, position |-> LineStart(text, i) + j - 1]>>
          ELSE <<>>)
         \o MatchesFrom(text, kind, i, j + 1)

RECURSIVE InsertByPosition(_, _)
InsertByPosition(sorted, c) ==
    IF sorted = <<>> THEN <<c>>
    ELSE IF c.position < Head(sorted).position THEN <<c>> \o sorted
    ELSE <<Head(sorted)>> \o InsertByPosition(Tail(sorted), c)

RECURSIVE SortByPosition(_)
SortByPosition(columns) ==
    IF columns = <<>> THEN <<>>
    ELSE InsertByPosition(SortByPosition(SubSeq(columns, 1, Len(columns) - 1)),
                          columns[Len(columns)])

UnsortedColumns(text) ==
    MatchesFrom(text, "range", 1, 1) \o MatchesFrom(text, "through", 1, 1)

\* variant of detectQuarterColumns: the matches are left in detection order
detectQuarterColumnsUnsorted(text) == UnsortedColumns(text)

detectQuarterColumns(text) == SortByPosition(UnsortedColumns(text))

(***************************************************************************)
(* findTargetQuarter.  An entry of quarterPriority is its pattern, given   *)
(* by the two spellings of the range that the pattern's \s*-\s* accepts.   *)
(* columnIndex is 0-based as in the source; no column is columnIndex -1.   *)
(***************************************************************************)
quarterPriority ==
    << [spaced |-> "4/1/25 - 6/30/25", tight |-> "4/1/25-6/30/25", name |-> "Q2 2025"],
       [spaced |-> "1/1/25 - 3/31/25", tight |-> "1/1/25-3/31/25", name |-> "Q1 2025"],
       [spaced |-> "10/1/24 - 12/31/24", tight |-> "10/1/24-12/31/24", name |-> "Q4 2024"],
       [spaced |-> "7/1/24 - 9/30/24", tight |-> "7/1/24-9/30/24", name |-> "Q3 2024"],
       [spaced |-> "4/1/24 - 6/30/24", tight |-> "4/1/24-6/30/24", name |-> "Q2 2024"] >>

PatternTest(entry, dateRange) == dateRange \in {entry.spaced, entry.tight}

\* columns.findIndex(col => pattern.test(col.dateRange)), 0-based, -1 if none
FindIndex(columns, entry) ==
    IF \E i \in 1..Len(columns) : PatternTest(entry, columns[i].dateRange)
    THEN (CHOOSE i \in 1..Len(columns) :
              /\ PatternTest(entry, columns[i].dateRange)
              /\ \A h \in 1..(i - 1) : ~PatternTest(entry, columns[h].dateRange)) - 1
    ELSE -1

NoTarget == [dateRange |-> "", position |-> -1, columnIndex |-> -1]

RECURSIVE FirstPriorityIndex(_, _)
FirstPriorityIndex(columns, p) ==
    IF p > Len(quarterPriority) THEN -1
    ELSE IF FindIndex(columns, quarterPriority[p]) # -1
         THEN FindIndex(columns, quarterPriority[p])
         ELSE FirstPriorityIndex(columns, p + 1)

\* variant of findTargetQuarter: without a priority match the first column
\* is used
findTargetQuarterFirst(columns) ==
    IF Len(columns) = 0 THEN NoTarget
    ELSE LET found == FirstPriorityIndex(columns, 1)
             bestColumnIndex == IF found # -1 THEN found ELSE 0
             bestColumn == columns[bestColumnIndex + 1]
         IN [dateRange |-> bestColumn.dateRange,
             position |-> bestColumn.position,
             columnIndex |-> bestColumnIndex]

findTargetQuarter(columns) ==
    IF Len(columns) = 0 THEN NoTarget
    ELSE LET found == FirstPriorityIndex(columns, 1)
             bestColumnIndex == IF found # -1 THEN found ELSE Len(columns) - 1
             bestColumn == columns[bestColumnIndex + 1]
         IN [dateRange |-> bestColumn.dateRange,
             position |-> bestColumn.position,
             columnIndex |-> bestColumnIndex]

(***************************************************************************)
(* extractValueAtPosition: the first of lines startLine..startLine+2 that  *)
(* has a number decides; values[k] of the source is values[k + 1] here.    *)
(***************************************************************************)
ValueOfLine(values, targetColumn) ==
    IF Len(values) > targetColumn.columnIndex
    THEN values[targetColumn.columnIndex + 1]
    ELSE IF targetColumn.dateRange = "10/1/24 - 12/31/24"
    THEN values[Len(values)]
    ELSE IF targetColumn.dateRange = "1/1/25 - 3/31/25"
    THEN (IF Len(values) >= 2 THEN values[2] ELSE values[1])
    ELSE IF targetColumn.dateRange = "4/1/25 - 6/30/25"
    THEN values[Len(values)]
    ELSE IF targetColumn.dateRange = "7/1/24 - 9/30/24"
    THEN (IF Len(values) >= 2 THEN values[Len(values) - 1] ELSE values[1])
    ELSE IF targetColumn.dateRange = "4/1/24 - 6/30/24"
    THEN (IF Len(values) >= 2 THEN values[2] ELSE values[1])
    ELSE values[Min(targetColumn.columnIndex, Len(values) - 1) + 1]

RECURSIVE ScanLines(_, _, _, _)
ScanLines(lines, i, last, targetColumn) ==
    IF i > last THEN None
    ELSE LET values == extractAllNumbersFromLine(lines[i])
         IN IF Len(values) > 0 THEN Some(ValueOfLine(values, targetColumn))
            ELSE ScanLines(lines, i + 1, last, targetColumn)

\* variant of extractValueAtPosition: a third line below the row is read too
extractValueAtPositionWide(lines, startLine, targetColumn) ==
    ScanLines(lines, startLine, Min(startLine + 3, Len(lines)), targetColumn)

extractValueAtPosition(lines, startLine, targetColumn) ==
    ScanLines(lines, startLine, Min(startLine + 2, Len(lines)), targetColumn)

(***************************************************************************)
(* ExtractedFinancialData: a function from the fields that are set to      *)
(* their values; an optional field that is undefined is not in its domain. *)
(***************************************************************************)
Put(f, key, value) ==
    [x \in (DOMAIN f) \cup {key} |-> IF x = key THEN value ELSE f[x]]

NoMetrics == [m \in {} |-> 0]

SetMetric(data, metric, value) ==
    Put(data, "customMetrics", Put(data["customMetrics"], metric, value))

Has(data, field) == field \in DOMAIN data
HasMetric(data, metric) == metric \in DOMAIN data["customMetrics"]

(***************************************************************************)
(* extractLineItems                                                        *)
(***************************************************************************)
incomeItems ==
    << [key |-> "ens_dao_stream", metric |-> "income_ens_dao_stream"],
       [key |-> "ens_dao_vesting", metric |-> "income_ens_dao_vesting"],
       [key |-> "mask_grant", metric |-> "income_mask_grant"],
       [key |-> "realized_gain_loss", metric |-> "income_realized_gain_loss"] >>

expenseItems ==
    << [key |-> "accounting", metric |-> "expense_accounting"],
       [key |-> "bounties", metric |-> "expense_bounties"],
       [key |-> "conferences_travel", metric |-> "expense_conferences_travel"],
       [key |-> "eth_gas", metric |-> "expense_eth_gas"],
       [key |-> "legal_services", metric |-> "expense_legal_services"],
       [key |-> "other", metric |-> "expense_other"],
       [key |-> "poap", metric |-> "expense_poap"],
       [key |-> "services", metric |-> "expense_services"],
       [key |-> "team", metric |-> "expense_team"] >>

\* variant of ExpenseMagnitude: the sign of the token is kept
ExpenseSigned(value) == value

\* the stored magnitude of an expense (Math.abs)
ExpenseMagnitude(value) == Abs(value)

\* the items whose pattern one line passes (expense items only on a line
\* without 'Total')
IncomeHits(line) ==
    {n \in 1..Len(incomeItems) : LineHas(line, incomeItems[n].key)}

ExpenseHits(line) ==
    {n \in 1..Len(expenseItems) :
        LineHas(line, expenseItems[n].key) /\ ~LineHas(line, "Total")}

\* one pass of the loop body: every item the line passes is given the value
\* read at the line (the same for all of them), if there is one
LineItemsOfLine(lines, i, targetColumn, data) ==
    LET value == extractValueAtPosition(lines, i, targetColumn)
        income == {incomeItems[n].metric : n \in IncomeHits(lines[i])}
        expense == {expenseItems[n].metric : n \in ExpenseHits(lines[i])}
        old == data["customMetrics"]
    IN IF value = None \/ income \cup expense = {} THEN data
       ELSE Put(data, "customMetrics",
                [m \in (DOMAIN old) \cup income \cup expense |->
                    IF m \in expense THEN ExpenseMagnitude(value[1])
                    ELSE IF m \in income THEN value[1]
                    ELSE old[m]])

RECURSIVE LineItemsFrom(_, _, _, _)
LineItemsFrom(lines, i, targetColumn, data) ==
    IF i > Len(lines) THEN data
    ELSE LineItemsFrom(lines, i + 1, targetColumn,
                       LineItemsOfLine(lines, i, targetColumn, data))

extractLineItems(lines, targetColumn, data) ==
    LineItemsFrom(lines, 1, targetColumn, data)

(***************************************************************************)
(* extractWithFallback                                                     *)
(***************************************************************************)
MagnitudeFloor == 1000

\* the lines after a Total Income line: j = i+1 .. min(i+4, last), with break
RECURSIVE FallbackRevenue(_, _, _)
FallbackRevenue(lines, j, last) ==
    IF j > last THEN None
    ELSE LET values == extractAllNumbersFromLine(lines[j])
             quarterlyValue == IF Len(values) >= 3 THEN values[Len(values) - 1]
                               ELSE values[Len(values)]
         IN IF Len(values) >= 2 /\ quarterlyValue > MagnitudeFloor
            THEN Some(Abs(quarterlyValue))
            ELSE FallbackRevenue(lines, j + 1, last)

\* variant of FindLarge: the second to last token of three or more, else
\* the last, if it is above the floor in magnitude
FindLargeByPlace(values) ==
    LET v == IF Len(values) >= 3 THEN values[Len(values) - 1] ELSE values[Len(values)]
    IN IF Len(values) >= 1 /\ Abs(v) > MagnitudeFloor THEN Some(v) ELSE None

\* values.find(v => Math.abs(v) > 1000)
FindLarge(values) ==
    IF \E n \in 1..Len(values) : Abs(values[n]) > MagnitudeFloor
    THEN Some(values[CHOOSE n \in 1..Len(values) :
                  /\ Abs(values[n]) > MagnitudeFloor
                  /\ \A h \in 1..(n - 1) : ~(Abs(values[h]) > MagnitudeFloor)])
    ELSE None

RECURSIVE FallbackExpenses(_, _, _)
FallbackExpenses(lines, j, last) ==
    IF j > last THEN None
    ELSE LET values == extractAllNumbersFromLine(lines[j])
             expenseValue == FindLarge(values)
         IN IF Len(values) >= 2 /\ expenseValue # None
            THEN Some(ExpenseMagnitude(expenseValue[1]))
            ELSE FallbackExpenses(lines, j + 1, last)

FallbackLine(lines, i, data) ==
    LET line == lines[i]
        last == Min(i + 4, Len(lines))
        revenue == FallbackRevenue(lines, i + 1, last)
        expenses == FallbackExpenses(lines, i + 1, last)
        values == extractAllNumbersFromLine(line)
        d1 == IF LineHas(line, "Total Income") /\ revenue # None
              THEN Put(data, "revenue", revenue[1]) ELSE data
        d2 == IF LineHas(line, "Total Expenses") /\ expenses # None
              THEN Put(d1, "expenses", expenses[1]) ELSE d1
    IN IF /\ LineHas(line, "Net")
          /\ ~LineHas(line, "Total")
          /\ ~LineHas(line, "Income")
          /\ Len(values) >= 1
          /\ Abs(values[1]) > MagnitudeFloor
       THEN Put(d2, "netIncome", values[1])
       ELSE d2

RECURSIVE FallbackFrom(_, _, _)
FallbackFrom(lines, i, data) ==
    IF i > Len(lines) THEN data
    ELSE FallbackFrom(lines, i + 1, FallbackLine(lines, i, data))

\* variant of extractWithFallback: netIncome is not derived from the totals
extractWithFallbackUnderived(text, data) == FallbackFrom(text, 1, data)

extractWithFallback(text, data) ==
    LET d == FallbackFrom(text, 1, data)
    IN IF Has(d, "revenue") /\ Has(d, "expenses") /\ ~Has(d, "netIncome")
       THEN Put(d, "netIncome", d["revenue"] - d["expenses"])
       ELSE d

(***************************************************************************)
(* parseIncomeStatement                                                    *)
(***************************************************************************)
RECURSIVE TotalsFrom(_, _, _, _)
TotalsFrom(lines, i, targetColumn, data) ==
    IF i > Len(lines) THEN data
    ELSE LET value == extractValueAtPosition(lines, i, targetColumn)
             d1 == IF LineHas(lines[i], "Total Income") /\ value # None
                   THEN Put(data, "revenue", Abs(value[1])) ELSE data
             d2 == IF LineHas(lines[i], "Total Expenses") /\ value # None
                   THEN Put(d1, "expenses", ExpenseMagnitude(value[1])) ELSE d1
         IN TotalsFrom(lines, i + 1, targetColumn, d2)

\* variant of parseIncomeStatement: the fallback also runs when the totals
\* loop found neither revenue nor expenses
parseIncomeStatementRetry(text, data) ==
    LET quarterColumns == detectQuarterColumns(text)
        targetColumn == findTargetQuarter(quarterColumns)
    IN IF targetColumn = NoTarget
       THEN extractWithFallback(text, data)
       ELSE LET d1 == TotalsFrom(text, 1, targetColumn, data)
                d2 == IF Has(d1, "revenue") /\ Has(d1, "expenses")
                      THEN Put(d1, "netIncome", d1["revenue"] - d1["expenses"])
                      ELSE d1
                d3 == IF ~Has(d1, "revenue") /\ ~Has(d1, "expenses")
                      THEN extractWithFallback(text, d2) ELSE d2
            IN extractLineItems(text, targetColumn, d3)

\* variant of parseIncomeStatement: netIncome is computed as soon as revenue
\* is known, missing expenses counting as 0
parseIncomeStatementEager(text, data) ==
    LET quarterColumns == detectQuarterColumns(text)
        targetColumn == findTargetQuarter(quarterColumns)
    IN IF targetColumn = NoTarget
       THEN extractWithFallback(text, data)
       ELSE LET d1 == TotalsFrom(text, 1, targetColumn, data)
                d2 == IF Has(d1, "revenue")
                      THEN Put(d1, "netIncome",
                               d1["revenue"]
                                   - (IF Has(d1, "expenses") THEN d1["expenses"] ELSE 0))
                      ELSE d1
            IN extractLineItems(text, targetColumn, d2)

parseIncomeStatement(text, data) ==
    LET quarterColumns == detectQuarterColumns(text)
        targetColumn == findTargetQuarter(quarterColumns)
    IN IF targetColumn = NoTarget
       THEN extractWithFallback(text, data)
       ELSE LET d1 == TotalsFrom(text, 1, targetColumn, data)
                d2 == IF Has(d1, "revenue") /\ Has(d1, "expenses")
                      THEN Put(d1, "netIncome", d1["revenue"] - d1["expenses"])
                      ELSE d1
            IN extractLineItems(text, targetColumn, d2)

(***************************************************************************)
(* parseBalanceSheet.  The section is the match of                         *)
(*   /Summary of Assets & Liabilities[\s\S]*?(?=\n\n|\Z)/i                 *)
(* from the first header, lazily, to the first place followed by a blank   *)
(* line ("\n\n": an empty line that is not the last line) or by what \Z    *)
(* matches in a JavaScript pattern under /i, the letter z; with neither    *)
(* after the header there is no match.                                     *)
(***************************************************************************)
\* the token carries the text p: a word run containing it, or the holding
\* of the symbol p
TokenHas(tok, p) ==
    \/ tok.k = "w" /\ p \in Contains(tok.s)
    \/ tok.k = "hold" /\ tok.s = p

\* the first token of the line, from token `from` on, that carries p (0: none)
FirstToken(line, from, p) ==
    IF \E j \in from..Len(line) : TokenHas(line[j], p)
    THEN CHOOSE j \in from..Len(line) :
             TokenHas(line[j], p) /\ \A h \in from..(j - 1) : ~TokenHas(line[h], p)
    ELSE 0

IsHeader == "Summary of Assets & Liabilities"
HasZ == "z"

NoSection == [found |-> FALSE, lines |-> <<>>]

\* the section's lines from line i on, line i taken from token `from`
RECURSIVE SectionFrom(_, _, _)
SectionFrom(text, i, from) ==
    IF i > Len(text) THEN NoSection
    ELSE LET z == FirstToken(text[i], from, HasZ)
         IN IF z # 0
            THEN [found |-> TRUE, lines |-> <<SubSeq(text[i], from, z - 1)>>]
            ELSE IF i + 1 < Len(text) /\ text[i + 1] = EmptyLine
            THEN [found |-> TRUE, lines |-> <<SubSeq(text[i], from, Len(text[i]))>>]
            ELSE LET rest == SectionFrom(text, i + 1, 1)
                 IN IF rest.found
                    THEN [found |-> TRUE,
                          lines |-> <<SubSeq(text[i], from, Len(text[i]))>> \o rest.lines]
                    ELSE NoSection

balanceSheetMatch(text) ==
    IF \E i \in 1..Len(text) : FirstToken(text[i], 1, IsHeader) # 0
    THEN LET i == CHOOSE i \in 1..Len(text) :
                      /\ FirstToken(text[i], 1, IsHeader) # 0
                      /\ \A h \in 1..(i - 1) : FirstToken(text[h], 1, IsHeader) = 0
         IN SectionFrom(text, i, FirstToken(text[i], 1, IsHeader))
    ELSE NoSection

\* variant of HoldingsOfLine: the value metric is not stored
HoldingsOfLineUnvalued(line, sym, prefix, data) ==
    LET j == FirstToken(line, 1, sym)
    IN IF j = 0 THEN data
       ELSE SetMetric(SetMetric(data, prefix.holdings, line[j].q),
                      prefix.price, line[j].v)

\* SYM (QUANTITY @ $PRICE): holdings, price and value of the line's first match
HoldingsOfLine(line, sym, prefix, data) ==
    LET j == FirstToken(line, 1, sym)
    IN IF j = 0 THEN data
       ELSE LET quantity == line[j].q
                price == line[j].v
                value == quantity * price
            IN SetMetric(SetMetric(SetMetric(data,
                   prefix.holdings, quantity), prefix.price, price), prefix.value, value)

EthMetrics == [holdings |-> "eth_holdings", price |-> "eth_price", value |-> "eth_value"]
EnsMetrics == [holdings |-> "ens_holdings", price |-> "ens_price", value |-> "ens_value"]

\* (USDC[xX]?)\s*\$\s*AMOUNT: the line's first match
StablecoinOfLine(line, data) ==
    LET IsUsdc(j) == /\ line[j].k = "w"
                     /\ Contains(line[j].s) \cap {"USDC", "USDCx"} # {}
                     /\ j + 1 <= Len(line)
                     /\ line[j + 1].k = "cur"
    IN IF \E j \in 1..Len(line) : IsUsdc(j)
       THEN LET j == CHOOSE j \in 1..Len(line) :
                         IsUsdc(j) /\ \A h \in 1..(j - 1) : ~IsUsdc(h)
                metric == IF "USDCx" \in Contains(line[j].s)
                          THEN "usdcx_holdings" ELSE "usdc_holdings"
            IN SetMetric(data, metric, line[j + 1].v)
       ELSE data

\* ^Net\s*\$\s*AMOUNT
NetOfLine(line, data) ==
    IF Len(line) >= 2 /\ line[1] = W("Net") /\ line[2].k = "cur"
    THEN Put(Put(data, "assets", line[2].v), "equity", line[2].v)
    ELSE data

\* Unreimbursed.*\$\s*\(AMOUNT\): greedy, so the last $(AMOUNT) after the word
LiabilityOfLine(line, data) ==
    LET u == FirstToken(line, 1, "Unreimbursed")
        After == IF u = 0 THEN {} ELSE {j \in (u + 1)..Len(line) : line[j].k = "pard"}
    IN IF After = {} THEN data
       ELSE LET j == CHOOSE j \in After : \A h \in After : h <= j
            IN SetMetric(Put(data, "liabilities", line[j].v),
                         "unreimbursed_admin_costs", line[j].v)

BalanceSheetLine(line, data) ==
    LiabilityOfLine(line,
        NetOfLine(line,
            StablecoinOfLine(line,
                HoldingsOfLine(line, "ENS", EnsMetrics,
                    HoldingsOfLine(line, "ETH", EthMetrics, data)))))

RECURSIVE BalanceSheetFrom(_, _, _)
BalanceSheetFrom(lines, i, data) ==
    IF i > Len(lines) THEN data
    ELSE BalanceSheetFrom(lines, i + 1, BalanceSheetLine(lines[i], data))

parseBalanceSheet(text, data) ==
    LET m == balanceSheetMatch(text)
    IN IF ~m.found THEN data ELSE BalanceSheetFrom(m.lines, 1, data)

\* the locals of parseIncomeStatement
parseLocals(text) ==
    [quarterColumns |-> detectQuarterColumns(text),
     targetColumn |-> findTargetQuarter(detectQuarterColumns(text))]

(***************************************************************************)
(* parseFinancialData                                                      *)
(***************************************************************************)
\* variant of parseFinancialData: the totals start at zero
parseFinancialDataZeroed(text) ==
    parseBalanceSheet(text,
        parseIncomeStatement(text,
            [rawText |-> text, customMetrics |-> NoMetrics,
             revenue |-> 0, expenses |-> 0]))

parseFinancialData(text) ==
    parseBalanceSheet(text,
        parseIncomeStatement(text, [rawText |-> text, customMetrics |-> NoMetrics]))

(***************************************************************************)
(* The report store: a Map, kept as its entries in insertion order.        *)
(***************************************************************************)
Key(quarter, year) == <<year, quarter>>

MapHas(map, key) == \E i \in 1..Len(map) : map[i].key = key

\* Map.get: <<>> for undefined
MapGet(map, key) ==
    IF MapHas(map, key)
    THEN <<map[CHOOSE i \in 1..Len(map) : map[i].key = key].value>>
    ELSE <<>>

\* Map.set: an existing key keeps its place
\* variant of MapSet: a key that is present keeps its value
MapSetIfAbsent(map, key, value) ==
    IF MapHas(map, key) THEN map ELSE Append(map, [key |-> key, value |-> value])

MapSet(map, key, value) ==
    IF MapHas(map, key)
    THEN [i \in 1..Len(map) |->
             IF map[i].key = key THEN [key |-> key, value |-> value] ELSE map[i]]
    ELSE Append(map, [key |-> key, value |-> value])

\* amounts of the seeded data are cut to whole numbers
reportsData == <<
    [quarter |-> "Q2", year |-> 2024,
     imageUrls |-> << "5bdec62cae38cdfe36e9d3f55bee6fb9c8a01514.jpeg" >>,
     extractedData |->
       [revenue |-> 124672,
        expenses |-> 62717,
        netIncome |-> 61954,
        assets |-> 146006,
        liabilities |-> 10245,
        equity |-> 135760,
        customMetrics |->
          [eth_holdings |-> 88,
           income_ens_dao_streams |-> 81088,
           income_realized_gain_loss |-> 15,
           expense_salaries |-> 59803,
           expense_ens_registration |-> 674,
           expense_eth_gas |-> 39,
           expense_legal_services |-> 5441,
           expense_software |-> 2874,
           unreimbursed_admin_costs |-> 10245],
        rawText |-> << <<W("Pre-cached financial data for Q2 2024 - Based on actual OCR extraction")>> >>]],
    [quarter |-> "Q3", year |-> 2024,
     imageUrls |-> << "5d0ebd43d1552fb872d92ce4d675930c484608f5.jpeg",
                    "0439583f5c1b4ca4c304be8b0e561c20c8d839c5.jpeg" >>,
     extractedData |->
       [revenue |-> 177419,
        expenses |-> 113805,
        netIncome |-> 63614,
        assets |-> 220318,
        liabilities |-> 2305,
        equity |-> 220318,
        customMetrics |->
          [eth_holdings |-> 64,
           eth_price |-> 2662,
           eth_value |-> 170830,
           usdcx_holdings |-> 37597,
           usdc_holdings |-> 14196,
           unreimbursed_admin_costs |-> 2305,
           income_ens_dao_stream |-> 127397,
           income_mask_grant |-> 50000,
           income_realized_gain_loss |-> 22,
           expense_team |-> 71562,
           expense_legal_services |-> 13566,
           expense_bounties |-> 18650,
           expense_services |-> 1064,
           expense_conferences_travel |-> 4910,
           expense_other |-> 2160,
           expense_poap |-> 1175,
           expense_accounting |-> 465,
           expense_eth_gas |-> 250],
        rawText |-> << <<W("Pre-cached financial data for Q3 2024 - Based on actual OCR extraction")>> >>]],
    [quarter |-> "Q4", year |-> 2024,
     imageUrls |-> << "7a80fa4dbe56021c02e2b28a57a7a5e1d3f04fc6.png",
                    "2065db635fef13ba9c9314806d14c4248f2cec62.png" >>,
     extractedData |->
       [revenue |-> 164070,
        expenses |-> 125189,
        netIncome |-> 38880,
        assets |-> 406374,
        liabilities |-> 4808,
        equity |-> 406374,
        customMetrics |->
          [eth_holdings |-> 61,
           eth_price |-> 3332,
           eth_value |-> 205841,
           ens_holdings |-> 4290,
           ens_price |-> 33,
           ens_value |-> 144445,
           usdcx_holdings |-> 40032,
           usdc_holdings |-> 20863,
           unreimbursed_admin_costs |-> 4808,
           income_ens_dao_stream |-> 126027,
           income_ens_dao_vesting |-> 37854,
           expense_team |-> 96803,
           expense_services |-> 8672,
           expense_poap |-> 6750,
           expense_other |-> 5659,
           expense_legal_services |-> 2725,
           expense_bounties |-> 2124],
        rawText |-> << <<W("Pre-cached financial data for Q4 2024 - Based on actual OCR extraction")>> >>]],
    [quarter |-> "Q1", year |-> 2025,
     imageUrls |-> << "ce762dfc423f269864fd98a3f2c0ae2c5ef42c5e.png",
                    "04aac8f3fa4755ca5dc2a94ae55abe11b0300972.png" >>,
     extractedData |->
       [revenue |-> 153038,
        expenses |-> 99291,
        netIncome |-> 53746,
        assets |-> 280371,
        liabilities |-> 18641,
        equity |-> 280371,
        customMetrics |->
          [eth_holdings |-> 61,
           eth_price |-> 1823,
           eth_value |-> 112656,
           ens_holdings |-> 5540,
           ens_price |-> 15,
           ens_value |-> 87643,
           usdcx_holdings |-> 39932,
           usdc_holdings |-> 58780,
           unreimbursed_admin_costs |-> 18641,
           income_ens_dao_stream |-> 123287,
           income_ens_dao_vesting |-> 29741,
           expense_team |-> 85244,
           expense_services |-> 12740,
           expense_conferences_travel |-> 658,
           expense_accounting |-> 445],
        rawText |-> << <<W("Pre-cached financial data for Q1 2025 - Based on actual OCR extraction")>> >>]],
    [quarter |-> "Q2", year |-> 2025,
     imageUrls |-> << "b2b1c0b8f3961a9edd7c7e0b58f37b6e606a1058.jpeg",
                    "955551005f60b3ba73e1c5d87be1ee910684faf5.jpeg" >>,
     extractedData |->
       [revenue |-> 148890,
        expenses |-> 103413,
        netIncome |-> 45476,
        assets |-> 382787,
        liabilities |-> 4964,
        equity |-> 382787,
        customMetrics |->
          [eth_holdings |-> 61,
           eth_price |-> 2486,
           eth_value |-> 153611,
           ens_holdings |-> 6790,
           ens_price |-> 18,
           ens_value |-> 127856,
           usdcx_holdings |-> 81225,
           usdc_holdings |-> 25058,
           unreimbursed_admin_costs |-> 4964,
           income_ens_dao_stream |-> 124657,
           income_ens_dao_vesting |-> 24233,
           income_realized_gain_loss |-> 0,
           expense_accounting |-> 1009,
           expense_conferences_travel |-> 1462,
           expense_eth_gas |-> 3,
           expense_services |-> 4337,
           expense_team |-> 96600],
        rawText |-> << <<W("Pre-cached financial data for Q2 2025 - Based on actual OCR extraction")>> >>]] >>

\* variant of SetAll: the reports are stored without their extractedData
RECURSIVE SetAllBare(_, _, _)
SetAllBare(map, data, n) ==
    IF n > Len(data) THEN map
    ELSE SetAllBare(MapSet(map, Key(data[n].quarter, data[n].year),
                           [quarter |-> data[n].quarter, year |-> data[n].year,
                            imageUrls |-> data[n].imageUrls]),
                    data, n + 1)

RECURSIVE SetAll(_, _, _)
SetAll(map, data, n) ==
    IF n > Len(data) THEN map
    ELSE SetAll(MapSet(map, Key(data[n].quarter, data[n].year), data[n]), data, n + 1)

initializeReports == SetAll(<<>>, reportsData, 1)

\* getAvailableReports
getAvailableReports(map) ==
    [i \in 1..Len(map) |-> [quarter |-> map[i].value.quarter, year |-> map[i].value.year]]

\* getReportByQuarter: this.reports.get(key) || null
\* variant of getReportByQuarter: an unknown key yields the first report
getReportByQuarterDefault(map, quarter, year) ==
    IF MapHas(map, Key(quarter, year)) THEN MapGet(map, Key(quarter, year))
    ELSE <<map[1].value>>

getReportByQuarter(map, quarter, year) == MapGet(map, Key(quarter, year))

(***************************************************************************)
(* Bounds and inputs of the checked behaviours.                            *)
(***************************************************************************)
MaxCallers == 2
MaxCalls == 2
Callers == 1..MaxCallers

\* the (quarter, year) arguments the callers pass: a report of one image,
\* a report of two images, and a pair that is no key of the store
Requests == { <<"Q2", 2024>>, <<"Q4", 2024>>, <<"Q3", 2025>> }

\* texts the OCR endpoint returns for a page
PageIncome ==
    << <<Range("7/1/24 - 9/30/24"), Range("10/1/24 - 12/31/24")>>,
       <<W("Total Income"), Cur(177419), Cur(164070)>>,
       <<W("Total Expenses"), DPar(113805), DPar(125189)>>,
       <<W("Team"), DPar(71562), DPar(96803)>> >>

PageBalance ==
    << <<W("Summary of Assets & Liabilities")>>,
       <<Hold("ETH", 61, 3332)>>,
       <<W("USDC"), Cur(20863)>>,
       <<W("Net"), Cur(406374)>> >>

OcrTexts == {PageIncome, PageBalance}

\* the JSON bodies of the OCR endpoint
OcrResults ==
    { [OCRExitCode |-> e, ParsedResults |-> r] :
        e \in 1..4,
        r \in {<<>>} \cup { <<[ParsedText |-> t]>> : t \in OcrTexts \cup {EmptyText} } }

(***************************************************************************)
(* One image of extractDataFromImages: the ocrSpaceExtract call (ocr, and  *)
(* text once it returned), the 15 s timer, and the settled Promise.race    *)
(* as seen by the mapped callback (winner, and what the callback returned: *)
(* value, or rejected if it threw).                                        *)
(***************************************************************************)
NewImage(url) ==
    [url |-> url, ocr |-> "fetching", text |-> EmptyText, timer |-> "armed",
     winner |-> "none", value |-> EmptyText, rejected |-> FALSE, order |-> 0]

\* return ocrText
ImageReturn(img, text) ==
    [img EXCEPT !.winner = "ocr", !.value = text]

\* variant of ImageCatch: the catch block rethrows
ImageRethrow(img, by) ==
    [img EXCEPT !.winner = by, !.rejected = TRUE]

\* catch (error) { console.error(...); return ''; }
ImageCatch(img, by) ==
    [img EXCEPT !.winner = by, !.value = EmptyText]

\* variant of OcrReturned: the text is taken whenever it arrives
OcrReturnedLate(img, text) ==
    ImageReturn([img EXCEPT !.ocr = "returned", !.text = text], text)

\* ocrSpaceExtract returned: the race settles with its text unless already settled
OcrReturned(img, text) ==
    LET returned == [img EXCEPT !.ocr = "returned", !.text = text]
    IN IF img.winner = "none" THEN ImageReturn(returned, text) ELSE returned

\* variant of OcrThrew: the error of ocrSpaceExtract settles nothing
OcrThrewUnsettled(img) == [img EXCEPT !.ocr = "threw"]

\* ocrSpaceExtract threw
OcrThrew(img) ==
    LET threw == [img EXCEPT !.ocr = "threw"]
    IN IF img.winner = "none" THEN ImageCatch(threw, "ocr") ELSE threw

\* variant of Join: the texts are joined last first
RECURSIVE JoinReversed(_)
JoinReversed(texts) ==
    IF texts = <<>> THEN EmptyText
    ELSE IF Len(texts) = 1 THEN texts[1]
    ELSE JoinReversed(Tail(texts)) \o <<EmptyLine>> \o texts[1]

\* extractedTexts.join('\n\n')
RECURSIVE Join(_)
Join(texts) ==
    IF texts = <<>> THEN EmptyText
    ELSE IF Len(texts) = 1 THEN texts[1]
    ELSE texts[1] \o <<EmptyLine>> \o Join(Tail(texts))

NoReturn == [tag |-> "pending", report |-> <<>>, list |-> <<>>]

\* what a caller keeps of its previous invocation
NoPrev ==
    [op |-> "none", quarter |-> "", year |-> 0, forceRefresh |-> FALSE,
     issued |-> <<>>, ret |-> NoReturn]

Summary(call) ==
    [op |-> call.op, quarter |-> call.quarter, year |-> call.year,
     forceRefresh |-> call.forceRefresh, issued |-> call.issued, ret |-> call.ret]

\* a caller: the invocation it is in (op, arguments, pc), the images of its
\* extractDataFromImages, the OCR requests it sent, what was returned to it,
\* and how many more invocations it makes
IdleCall(budget) ==
    [pc |-> "idle", op |-> "none", quarter |-> "", year |-> 0, forceRefresh |-> FALSE,
     images |-> <<>>, issued |-> <<>>, ret |-> NoReturn, left |-> budget,
     prev |-> NoPrev, clock |-> 0]

\* a caller invokes the service when it is in no invocation
CanInvoke(c) ==
    /\ calls[c].pc \in {"idle", "done", "rejected"}
    /\ calls[c].left > 0

Invoke(c, op, quarter, year, forceRefresh) ==
    [IdleCall(calls[c].left - 1) EXCEPT
        !.op = op, !.quarter = quarter, !.year = year, !.forceRefresh = forceRefresh,
        !.prev = IF calls[c].pc = "idle" THEN NoPrev ELSE Summary(calls[c])]

\* one caller invoking the service MaxCalls times, one invocation after another
Init ==
    /\ reports = initializeReports
    /\ calls = [c \in Callers |-> IdleCall(IF c = 1 THEN MaxCalls ELSE 0)]
    /\ ptext = EmptyText
    /\ pdata = parseFinancialData(EmptyText)
    /\ plocals = parseLocals(EmptyText)
    /\ pstage = "off"

Harness == <<ptext, pdata, plocals, pstage>>

(***************************************************************************)
(* getReportByQuarter and getAvailableReports, called from outside.        *)
(***************************************************************************)
GetReport(c, quarter, year) ==
    /\ CanInvoke(c)
    /\ LET found == getReportByQuarter(reports, quarter, year)
       IN calls' = [calls EXCEPT ![c] =
              [Invoke(c, "get", quarter, year, FALSE) EXCEPT
                  !.pc = "done",
                  !.ret = IF found = <<>>
                          THEN [tag |-> "null", report |-> <<>>, list |-> <<>>]
                          ELSE [tag |-> "report", report |-> found, list |-> <<>>]]]
    /\ UNCHANGED <<reports, Harness>>

ListReports(c) ==
    /\ CanInvoke(c)
    /\ calls' = [calls EXCEPT ![c] =
           [Invoke(c, "list", "", 0, FALSE) EXCEPT
               !.pc = "done",
               !.ret = [tag |-> "list", report |-> <<>>,
                        list |-> getAvailableReports(reports)]]]
    /\ UNCHANGED <<reports, Harness>>

(***************************************************************************)
(* processAndCacheReport                                                   *)
(***************************************************************************)
\* the call, up to its await of getReportByQuarter
ProcessCall(c, quarter, year, forceRefresh) ==
    /\ CanInvoke(c)
    /\ calls' = [calls EXCEPT ![c] =
           [Invoke(c, "process", quarter, year, forceRefresh) EXCEPT !.pc = "awaitGet"]]
    /\ UNCHANGED <<reports, Harness>>

\* variant of CacheKey: the quarter is left out of the key
CacheKeyOfYear(quarter, year) == <<year, "Q2">>

\* variant of CacheKey: the year written with two digits, as the date
\* ranges of the reports write it
CacheKeyShortYear(quarter, year) == <<year % 100, quarter>>

\* const key = `${year}-${quarter}` of processAndCacheReport
CacheKey(quarter, year) == Key(quarter, year)

\* variant of NeedsExtraction: the cached data is never reused
NeedsExtractionAlways(report, forceRefresh) == TRUE

\* variant of NeedsExtraction: forceRefresh is ignored
NeedsExtractionUnforced(report, forceRefresh) == ~Has(report, "extractedData")

\* variant of NeedsExtraction: cached data without revenue counts as absent
NeedsExtractionNoRevenue(report, forceRefresh) ==
    \/ ~Has(report, "extractedData")
    \/ ~Has(report["extractedData"], "revenue")
    \/ forceRefresh

\* if (!report.extractedData || forceRefresh)
NeedsExtraction(report, forceRefresh) ==
    ~Has(report, "extractedData") \/ forceRefresh

\* variant of ProcessResume: a call that finds an extraction for its key
\* under way joins it instead of returning the stored report
ProcessResumeJoined(c) ==
    /\ calls[c].pc = "awaitGet"
    /\ LET found == getReportByQuarter(reports, calls[c].quarter, calls[c].year)
           Under == {a \in DOMAIN calls :
                        /\ a # c /\ calls[a].pc = "ocr"
                        /\ calls[a].quarter = calls[c].quarter
                        /\ calls[a].year = calls[c].year}
       IN calls' = [calls EXCEPT ![c] =
              IF found = <<>>
              THEN [@ EXCEPT !.pc = "done",
                             !.ret = [tag |-> "null", report |-> <<>>, list |-> <<>>]]
              ELSE IF Under # {}
              THEN [@ EXCEPT !.pc = "ocr",
                             !.images = calls[CHOOSE a \in Under : TRUE].images]
              ELSE IF NeedsExtraction(found[1], calls[c].forceRefresh)
              THEN [@ EXCEPT !.pc = "ocr",
                             !.images = [i \in 1..Len(found[1].imageUrls) |->
                                            NewImage(found[1].imageUrls[i])],
                             !.issued = found[1].imageUrls]
              ELSE [@ EXCEPT !.pc = "done",
                             !.ret = [tag |-> "report", report |-> found, list |-> <<>>]]]
    /\ UNCHANGED <<reports, Harness>>

\* the continuation after getReportByQuarter: null, the cached report, or
\* extractDataFromImages up to its await of Promise.all (every image's
\* timer is armed and its request sent)
ProcessResume(c) ==
    /\ calls[c].pc = "awaitGet"
    /\ LET found == getReportByQuarter(reports, calls[c].quarter, calls[c].year)
       IN calls' = [calls EXCEPT ![c] =
              IF found = <<>>
              THEN [@ EXCEPT !.pc = "done",
                             !.ret = [tag |-> "null", report |-> <<>>, list |-> <<>>]]
              ELSE IF NeedsExtraction(found[1], calls[c].forceRefresh)
              THEN [@ EXCEPT !.pc = "ocr",
                             !.images = [i \in 1..Len(found[1].imageUrls) |->
                                            NewImage(found[1].imageUrls[i])],
                             !.issued = found[1].imageUrls]
              ELSE [@ EXCEPT !.pc = "done",
                             !.ret = [tag |-> "report", report |-> found, list |-> <<>>]]]
    /\ UNCHANGED <<reports, Harness>>

Running(c, i) ==
    /\ calls[c].pc \in {"ocr", "done", "rejected"}
    /\ i \in 1..Len(calls[c].images)

\* the image as the step leaves it; a step that settles the callback's
\* promise numbers it among the settled promises of Promise.all's input
Settled(c) == {j \in DOMAIN calls[c].images : calls[c].images[j].winner # "none"}

Stamp(c, i, img) ==
    IF calls[c].images[i].winner = "none" /\ img.winner # "none"
    THEN [img EXCEPT !.order = Cardinality(Settled(c)) + 1]
    ELSE img

SetImage(c, i, img) ==
    /\ calls' = [calls EXCEPT ![c].images[i] = Stamp(c, i, img)]
    /\ UNCHANGED <<reports, Harness>>

\* fetch resolved with a response: if (!response.ok) throw
FetchResponds(c, i, ok) ==
    /\ Running(c, i) /\ calls[c].images[i].ocr = "fetching"
    /\ SetImage(c, i, IF ok THEN [calls[c].images[i] EXCEPT !.ocr = "reading"]
                      ELSE OcrThrew(calls[c].images[i]))

\* fetch rejected (no connection)
FetchFails(c, i) ==
    /\ Running(c, i) /\ calls[c].images[i].ocr = "fetching"
    /\ SetImage(c, i, OcrThrew(calls[c].images[i]))

\* the 12 s timer of ocrSpaceExtract, cleared once fetch has resolved
AbortFires(c, i) ==
    /\ Running(c, i) /\ calls[c].images[i].ocr = "fetching"
    /\ SetImage(c, i, OcrThrew(calls[c].images[i]))

\* response.json() resolved
BodyRead(c, i, result) ==
    /\ Running(c, i) /\ calls[c].images[i].ocr = "reading"
    /\ SetImage(c, i,
           IF result.OCRExitCode = 1 /\ result.ParsedResults # <<>>
           THEN OcrReturned(calls[c].images[i], result.ParsedResults[1].ParsedText)
           ELSE OcrThrew(calls[c].images[i]))

\* response.json() rejected (the body is no JSON)
BodyFails(c, i) ==
    /\ Running(c, i) /\ calls[c].images[i].ocr = "reading"
    /\ SetImage(c, i, OcrThrew(calls[c].images[i]))

\* the 15 s timer of the mapped callback; it is never cleared
OuterTimeout(c, i) ==
    /\ Running(c, i) /\ calls[c].images[i].timer = "armed"
    /\ SetImage(c, i,
           LET fired == [calls[c].images[i] EXCEPT !.timer = "fired"]
           IN IF fired.winner = "none" THEN ImageCatch(fired, "timeout") ELSE fired)

\* Promise.all settled: the rest of extractDataFromImages and of
\* processAndCacheReport
ProcessFinish(c) ==
    /\ calls[c].pc = "ocr"
    /\ \A i \in 1..Len(calls[c].images) : calls[c].images[i].winner # "none"
    /\ IF \E i \in 1..Len(calls[c].images) : calls[c].images[i].rejected
       THEN /\ calls' = [calls EXCEPT ![c].pc = "rejected"]
            /\ UNCHANGED reports
       ELSE LET results == [i \in 1..Len(calls[c].images) |-> calls[c].images[i].value]
                combinedText == Join(results)
                key == CacheKey(calls[c].quarter, calls[c].year)
                report == [getReportByQuarter(reports, calls[c].quarter, calls[c].year)[1] EXCEPT
                              !.extractedData = parseFinancialData(combinedText)]
            IN /\ reports' = MapSet(reports, key, report)
               /\ calls' = [calls EXCEPT ![c].pc = "done",
                                         ![c].ret = [tag |-> "report",
                                                     report |-> <<report>>,
                                                     list |-> <<>>]]
    /\ UNCHANGED Harness

Next ==
    \E c \in Callers :
        \/ \E r \in Requests : GetReport(c, r[1], r[2])
        \/ ListReports(c)
        \/ \E r \in Requests, f \in BOOLEAN : ProcessCall(c, r[1], r[2], f)
        \/ ProcessResume(c)
        \/ \E i \in DOMAIN calls[c].images :
              \/ \E ok \in BOOLEAN : FetchResponds(c, i, ok)
              \/ FetchFails(c, i)
              \/ AbortFires(c, i)
              \/ \E result \in OcrResults : BodyRead(c, i, result)
              \/ BodyFails(c, i)
              \/ OuterTimeout(c, i)
        \/ ProcessFinish(c)

Spec == Init /\ [][Next]_vars

(***************************************************************************)
(* Overlapping processAndCacheReport calls: every caller makes one call,   *)
(* the first for the report of one image or for a report of two, the       *)
(* others for the report of one image.  The endpoint answers or fails      *)
(* every request before the 15 s timer is due.                             *)
(***************************************************************************)
ConcRequests == { <<"Q2", 2024>>, <<"Q4", 2024>> }

RequestsOf(c) == IF c = 1 THEN ConcRequests ELSE { <<"Q2", 2024>> }

InitConc ==
    /\ reports = initializeReports
    /\ calls = [c \in Callers |-> IdleCall(1)]
    /\ ptext = EmptyText
    /\ pdata = parseFinancialData(EmptyText)
    /\ plocals = parseLocals(EmptyText)
    /\ pstage = "off"

\* what the endpoint does with the request for image i of caller c
Endpoint(c, i) ==
    \/ \E ok \in BOOLEAN : FetchResponds(c, i, ok)
    \/ FetchFails(c, i)
    \/ \E result \in OcrResults : BodyRead(c, i, result)
    \/ BodyFails(c, i)

NextConc ==
    \E c \in Callers :
        \/ \E r \in RequestsOf(c), f \in BOOLEAN : ProcessCall(c, r[1], r[2], f)
        \/ ProcessResume(c)
        \/ \E i \in DOMAIN calls[c].images :
              \/ Endpoint(c, i)
              \/ AbortFires(c, i)
        \/ ProcessFinish(c)

SpecConc == InitConc /\ [][NextConc]_vars

(***************************************************************************)
(* Overlapping calls for one report of two images: the first two callers   *)
(* make one call each for Q4 2024, forced or not, the others for the       *)
(* report of one image.                                                    *)
(***************************************************************************)
OverlapRequest(c) == IF c <= 2 THEN <<"Q4", 2024>> ELSE <<"Q2", 2024>>

NextOverlap ==
    \E c \in Callers :
        \/ \E f \in BOOLEAN :
              ProcessCall(c, OverlapRequest(c)[1], OverlapRequest(c)[2], f)
        \/ ProcessResume(c)
        \/ \E i \in DOMAIN calls[c].images :
              \/ Endpoint(c, i)
              \/ AbortFires(c, i)
        \/ ProcessFinish(c)

SpecOverlap == InitConc /\ [][NextOverlap]_vars

(***************************************************************************)
(* One forced call with time: clock is the time since the call dispatched  *)
(* its images (the callbacks of imageUrls.map all run, up to their first   *)
(* await, in the one synchronous pass that arms both timers of each).  A   *)
(* timer fires when its delay has elapsed: time does not pass a pending    *)
(* timer's due time, nor a continuation that is ready to run.              *)
(***************************************************************************)
AbortAfter == 12
TimeoutAfter == 15
MaxClock == 16

InitTimed ==
    /\ reports = initializeReports
    /\ calls = [c \in Callers |-> IdleCall(IF c = 1 THEN 1 ELSE 0)]
    /\ ptext = EmptyText
    /\ pdata = parseFinancialData(EmptyText)
    /\ plocals = parseLocals(EmptyText)
    /\ pstage = "off"

\* setTimeout(() => controller.abort(), 12000)
AbortAt(c, i) ==
    /\ calls[c].clock = AbortAfter
    /\ AbortFires(c, i)

\* setTimeout(() => reject(new Error('OCR timeout')), 15000)
TimeoutAt(c, i) ==
    /\ calls[c].clock = TimeoutAfter
    /\ OuterTimeout(c, i)

Tick(c) ==
    /\ calls[c].images # <<>>
    /\ calls[c].clock < MaxClock
    /\ \A i \in DOMAIN calls[c].images :
          /\ ~(calls[c].images[i].ocr = "fetching" /\ calls[c].clock = AbortAfter)
          /\ ~(calls[c].images[i].timer = "armed" /\ calls[c].clock = TimeoutAfter)
    /\ ~(calls[c].pc = "ocr" /\ Settled(c) = DOMAIN calls[c].images)
    /\ calls' = [calls EXCEPT ![c].clock = @ + 1]
    /\ UNCHANGED <<reports, Harness>>

NextTimed ==
    \E c \in Callers :
        \/ \E r \in ConcRequests : ProcessCall(c, r[1], r[2], TRUE)
        \/ ProcessResume(c)
        \/ \E i \in DOMAIN calls[c].images :
              \/ Endpoint(c, i)
              \/ AbortAt(c, i)
              \/ TimeoutAt(c, i)
        \/ ProcessFinish(c)
        \/ Tick(c)

SpecTimed == InitTimed /\ [][NextTimed]_vars

(***************************************************************************)
(* The parser on its own: parseFinancialData applied to every text of at   *)
(* most MaxLines lines drawn from one of four pools of lines.              *)
(***************************************************************************)
MaxLines == 4

ColumnPool ==
    { <<Range("7/1/24 - 9/30/24"), Range("10/1/24 - 12/31/24")>>,
      <<Range("1/1/24 - 3/31/24"), Range("1/1/25-3/31/25")>>,
      <<Range("4/1/25 - 6/30/25"), Range("4/1/24 - 6/30/24")>>,
      <<Through("Through 2024")>>,
      <<Range("1/1/24 - 3/31/24")>>,
      <<W("Total Income"), Cur(2000), Cur(3000), Cur(4000)>>,
      <<W("Total Expenses"), DPar(1500), Par(500)>>,
      <<W("Total Income")>> }

FallbackPool ==
    { <<W("Total Income")>>,
      <<W("Total Expenses")>>,
      <<Cur(500), Cur(2500)>>,
      <<Cur(1200), Cur(4000), Cur(9000)>>,
      <<Par(700), DPar(1800)>>,
      <<Par(2600), Par(300)>>,
      <<W("Net"), Cur(1700)>>,
      <<W("Net"), Cur(6100), Cur(13500)>>,
      <<W("Total Income"), Cur(2000), Cur(3000)>> }

ItemPool ==
    { <<Range("10/1/24 - 12/31/24")>>,
      <<Range("7/1/24 - 9/30/24"), Range("10/1/24 - 12/31/24")>>,
      <<W("Team"), Par(800), Par(900)>>,
      <<W("Total Team"), Cur(950)>>,
      <<W("Legal Services"), Cur(40), DPar(60)>>,
      <<W("Total Realized Gain/Loss"), Cur(15), Par(3)>>,
      <<W("Realized Gain/Loss"), Par(12), Cur(124), Cur(205)>>,
      <<W("Total Expenses"), DPar(125189)>>,
      <<W("Other")>> }

BalancePool ==
    { <<W("Summary of Assets & Liabilities")>>,
      <<Hold("ETH", 61, 3332)>>,
      <<Hold("ETH", 2, 5)>>,
      <<Hold("ENS", 4290, 33)>>,
      <<W("USDC"), Cur(11)>>,
      <<W("USDCx"), Cur(13), W("USDC"), Cur(17)>>,
      <<W("Realized Gain/Loss"), Cur(22)>>,
      EmptyLine }

\* rows whose values stand on the row itself or one to three lines below it
WindowPool ==
    { <<Range("10/1/24 - 12/31/24")>>,
      <<W("Total Income")>>,
      <<W("Team")>>,
      <<Cur(2000), Cur(3000)>>,
      <<Cur(0)>>,
      EmptyLine }

TextsOver(pool) == UNION { [1..n -> pool] : n \in 1..MaxLines }

\* a header, a row and the three lines below it need five lines
WindowTexts == UNION { [1..n -> WindowPool] : n \in 1..(MaxLines + 1) }

Texts ==
    TextsOver(ColumnPool) \cup TextsOver(FallbackPool)
        \cup TextsOver(ItemPool) \cup TextsOver(BalancePool) \cup WindowTexts

InitParse ==
    /\ reports = initializeReports
    /\ calls = [c \in Callers |-> IdleCall(0)]
    /\ ptext \in Texts
    /\ pdata = parseFinancialData(EmptyText)
    /\ plocals = parseLocals(EmptyText)
    /\ pstage = "input"

ParseText ==
    /\ pstage = "input"
    /\ pdata' = parseFinancialData(ptext)
    /\ plocals' = parseLocals(ptext)
    /\ pstage' = "parsed"
    /\ UNCHANGED <<reports, calls, ptext>>

NextParse == ParseText

SpecParse == InitParse /\ [][NextParse]_vars

(***************************************************************************)
(* Properties of the store and of processAndCacheReport, under Spec.       *)
(***************************************************************************)
\* the invocation of caller c is a completed processAndCacheReport that
\* directly follows a completed one on the same key, both without forceRefresh
Repeated(c) ==
    /\ calls[c].op = "process" /\ calls[c].pc = "done" /\ ~calls[c].forceRefresh
    /\ calls[c].prev.op = "process" /\ ~calls[c].prev.forceRefresh
    /\ calls[c].prev.quarter = calls[c].quarter
    /\ calls[c].prev.year = calls[c].year
    /\ calls[c].prev.ret.tag = "report"

\* C1: two successive processAndCacheReport calls on one key, both without
\* forceRefresh: the second sends no OCR request and the first at most one
\* round of them (one per image), the second returns the extractedData the
\* first returned, and the store still holds what the first call returned.
C1_Idempotent ==
    \A c \in Callers :
        Repeated(c) =>
            /\ calls[c].issued = <<>>
            /\ calls[c].prev.issued \in {<<>>, calls[c].prev.ret.report[1].imageUrls}
            /\ calls[c].ret.tag = "report"
            /\ calls[c].ret.report[1].extractedData
                   = calls[c].prev.ret.report[1].extractedData
            /\ getReportByQuarter(reports, calls[c].quarter, calls[c].year)
                   = calls[c].prev.ret.report

C1_Witness ==
    \E c \in Callers :
        /\ Repeated(c)
        /\ Has(calls[c].ret.report[1], "extractedData")
        /\ calls[c].issued = <<>>

\* the invocation of caller c is a forced processAndCacheReport on a stored key
Forced(c) ==
    /\ calls[c].op = "process" /\ calls[c].forceRefresh
    /\ MapHas(reports, Key(calls[c].quarter, calls[c].year))

StoredReport(c) == MapGet(reports, Key(calls[c].quarter, calls[c].year))[1]

\* C2: processAndCacheReport with forceRefresh on a stored key whose
\* extractedData is present runs the OCR phase again, sending exactly one
\* request per image of the report, and when it returns the store holds
\* the new extraction result, which is also what it returns.
C2_ForceRefresh ==
    \A c \in Callers :
        Forced(c) =>
            /\ calls[c].pc \in {"ocr", "done"} =>
                  /\ calls[c].issued = StoredReport(c).imageUrls
                  /\ Len(calls[c].images) = Len(StoredReport(c).imageUrls)
                  /\ \A i \in 1..Len(calls[c].images) :
                        calls[c].images[i].url = StoredReport(c).imageUrls[i]
            /\ calls[c].pc = "done" =>
                  /\ calls[c].ret.tag = "report"
                  /\ calls[c].ret.report[1].extractedData.rawText
                         = Join([i \in 1..Len(calls[c].images) |->
                                    calls[c].images[i].value])
                  /\ calls[c].ret.report[1].extractedData
                         = parseFinancialData(calls[c].ret.report[1].extractedData.rawText)
                  /\ StoredReport(c).extractedData
                         = calls[c].ret.report[1].extractedData

C2_Witness ==
    \E c \in Callers :
        /\ Forced(c) /\ calls[c].pc = "done"
        /\ Len(calls[c].issued) = 2
        /\ Has(calls[c].ret.report[1].extractedData, "revenue")
        /\ \E i \in 1..Len(reportsData) :
              /\ reportsData[i].quarter = calls[c].quarter
              /\ reportsData[i].year = calls[c].year
              /\ reportsData[i].extractedData # StoredReport(c).extractedData

\* the invocation of caller c names a key the store was not seeded with
Unknown(c) ==
    /\ calls[c].op \in {"get", "process"}
    /\ \A i \in 1..Len(reportsData) :
          Key(reportsData[i].quarter, reportsData[i].year)
              # Key(calls[c].quarter, calls[c].year)

\* C3: for a key the store does not hold, getReportByQuarter returns
\* nothing, processAndCacheReport returns nothing whatever forceRefresh is,
\* no OCR request is sent, and the store gets no entry for the key.
C3_UnknownKey ==
    \A c \in Callers :
        Unknown(c) =>
            /\ calls[c].pc \in {"awaitGet", "done"}
            /\ calls[c].pc = "done" => calls[c].ret.tag = "null"
            /\ calls[c].issued = <<>>
            /\ calls[c].images = <<>>
            /\ ~MapHas(reports, Key(calls[c].quarter, calls[c].year))
            /\ Len(reports) = Len(reportsData)

C3_Witness ==
    \E c \in Callers :
        /\ Unknown(c) /\ calls[c].op = "process" /\ calls[c].forceRefresh
        /\ calls[c].pc = "done" /\ calls[c].ret.tag = "null"
        /\ calls[c].prev.op = "get" /\ calls[c].prev.ret.tag = "null"
        /\ calls[c].prev.quarter = calls[c].quarter

\* what the images of caller c's extractDataFromImages resolved to
Contributions(c) ==
    [i \in 1..Len(calls[c].images) |-> calls[c].images[i].value]

\* an OCR response body that ocrSpaceExtract does not accept
Refused(result) == result.OCRExitCode # 1 \/ result.ParsedResults = <<>>

\* a step in which image i of caller c fails: the request is rejected or
\* aborted, the response is not 2xx, its body is no JSON or is refused, or
\* the 15 s timer fires
ImageFails(c, i) ==
    \/ FetchResponds(c, i, FALSE)
    \/ FetchFails(c, i)
    \/ AbortFires(c, i)
    \/ BodyFails(c, i)
    \/ \E result \in OcrResults : Refused(result) /\ BodyRead(c, i, result)
    \/ OuterTimeout(c, i)

C4_Step ==
    \A c \in Callers :
        /\ \A i \in DOMAIN calls[c].images :
              /\ (calls[c].images[i].winner = "none" /\ ImageFails(c, i)) =>
                    /\ calls'[c].images[i].winner # "none"
                    /\ calls'[c].images[i].value = EmptyText
                    /\ ~calls'[c].images[i].rejected
                    /\ \A j \in DOMAIN calls[c].images :
                          j # i => calls'[c].images[j] = calls[c].images[j]
              /\ \A result \in OcrResults :
                    (/\ calls[c].images[i].winner = "none"
                     /\ ~Refused(result)
                     /\ BodyRead(c, i, result)) =>
                        calls'[c].images[i].value = result.ParsedResults[1].ParsedText
        /\ (calls[c].pc = "ocr" /\ calls'[c].pc # "ocr") =>
              /\ calls'[c].pc = "done"
              /\ calls'[c].ret.tag = "report"
              /\ calls'[c].ret.report[1].extractedData.rawText = Join(Contributions(c))

\* C4: an image whose OCR fails (the 15 s timer, the 12 s abort, a rejected
\* request, a non-2xx response, an unreadable or refused body) contributes
\* the empty string and leaves the other images alone; an accepted body
\* contributes its text; the extraction then finishes normally with the
\* blob joined from all contributions, and never with an error.
C4_FailureIsolated == [][C4_Step]_vars

C4_Witness ==
    \E c \in Callers :
        /\ calls[c].op = "process" /\ calls[c].pc = "done"
        /\ \E i, j \in DOMAIN calls[c].images :
              /\ calls[c].images[i].ocr = "threw"
              /\ calls[c].images[i].winner = "ocr"
              /\ calls[c].images[i].value = EmptyText
              /\ calls[c].images[j].ocr = "returned"
              /\ calls[c].images[j].winner = "ocr"
              /\ calls[c].images[j].value = PageIncome
        /\ Has(calls[c].ret.report[1].extractedData, "revenue")

\* caller c's processAndCacheReport has run extractDataFromImages and returned
Extracted(c) ==
    calls[c].op = "process" /\ calls[c].pc = "done" /\ calls[c].images # <<>>

NoLineHas(text, p) == \A i \in 1..Len(text) : ~LineHas(text[i], p)

\* C5: whatever the outcomes of the images, the extraction completes: the
\* returned report has extractedData with customMetrics and with rawText
\* the joined blob; a field whose pattern the blob does not contain is
\* absent, not zero, and when every image failed nothing but rawText and
\* an empty customMetrics is there.
C5_AlwaysCompletes ==
    \A c \in Callers :
        /\ calls[c].pc # "rejected"
        /\ Extracted(c) =>
              /\ calls[c].ret.tag = "report"
              /\ Has(calls[c].ret.report[1], "extractedData")
              /\ LET data == calls[c].ret.report[1].extractedData
                 IN /\ Has(data, "rawText") /\ Has(data, "customMetrics")
                    /\ data.rawText = Join(Contributions(c))
                    /\ NoLineHas(data.rawText, "Total Income") => ~Has(data, "revenue")
                    /\ NoLineHas(data.rawText, "Total Expenses") => ~Has(data, "expenses")
                    /\ NoLineHas(data.rawText, "Net") =>
                          /\ ~Has(data, "assets") /\ ~Has(data, "equity")
                          /\ Has(data, "netIncome") =>
                                Has(data, "revenue") /\ Has(data, "expenses")
                    /\ NoLineHas(data.rawText, "Unreimbursed") => ~Has(data, "liabilities")
                    /\ (\A i \in DOMAIN calls[c].images :
                           calls[c].images[i].value = EmptyText) =>
                          /\ DOMAIN data = {"rawText", "customMetrics"}
                          /\ data.customMetrics = NoMetrics

C5_Witness ==
    \E c \in Callers :
        /\ Extracted(c)
        /\ Len(calls[c].images) = 2
        /\ \A i \in DOMAIN calls[c].images : calls[c].images[i].value = EmptyText
        /\ \E i \in DOMAIN calls[c].images : calls[c].images[i].winner = "timeout"
        /\ DOMAIN calls[c].ret.report[1].extractedData = {"rawText", "customMetrics"}

\* the part of the store no operation is to change
Static(map) ==
    [i \in 1..Len(map) |->
        [key |-> map[i].key, quarter |-> map[i].value.quarter,
         year |-> map[i].value.year, imageUrls |-> map[i].value.imageUrls]]

C10_Inv ==
    /\ Static(reports) = Static(initializeReports)
    /\ \A c \in Callers :
          (calls[c].op = "list" /\ calls[c].pc = "done") =>
              calls[c].ret.list =
                  << [quarter |-> "Q2", year |-> 2024], [quarter |-> "Q3", year |-> 2024],
                     [quarter |-> "Q4", year |-> 2024], [quarter |-> "Q1", year |-> 2025],
                     [quarter |-> "Q2", year |-> 2025] >>

C10_Step ==
    reports' # reports =>
        \E c \in Callers :
            /\ calls[c].op = "process" /\ calls[c].pc = "ocr" /\ calls'[c].pc = "done"
            /\ Len(reports') = Len(reports)
            /\ \A i \in 1..Len(reports) :
                  /\ reports'[i].key = reports[i].key
                  /\ reports'[i] # reports[i] =>
                        /\ reports[i].key = Key(calls[c].quarter, calls[c].year)
                        /\ DOMAIN reports'[i].value = DOMAIN reports[i].value
                        /\ \A f \in DOMAIN reports[i].value \ {"extractedData"} :
                              reports'[i].value[f] = reports[i].value[f]

\* C10: the store keeps its keys and every report its quarter, year and
\* imageUrls, so getAvailableReports always returns the seeded pairs in
\* seeding order; getReportByQuarter and getAvailableReports never change
\* the store, and a processAndCacheReport that finishes changes nothing
\* but the extractedData of the report it was called for.
C10_Frame == []C10_Inv /\ [][C10_Step]_vars

C10_Witness ==
    \E c \in Callers :
        /\ calls[c].op = "list" /\ calls[c].pc = "done"
        /\ calls[c].prev.op = "process" /\ calls[c].prev.ret.tag = "report"
        /\ reports # initializeReports
        /\ Static(reports) = Static(initializeReports)

(***************************************************************************)
(* Properties of parseFinancialData, under SpecParse.                      *)
(***************************************************************************)
Parsed == pstage = "parsed"

\* the priority entry p matches one of the detected columns
Listed(p) ==
    \E n \in 1..Len(plocals.quarterColumns) :
        PatternTest(quarterPriority[p], plocals.quarterColumns[n].dateRange)

\* the header tokens of the text
HeaderTokens(text) ==
    UNION { { <<i, j>> : j \in {j \in 1..Len(text[i]) :
                                    text[i][j].k \in {"range", "through"}} } :
            i \in 1..Len(text) }

\* C6: when an entry of the priority table (Q2 2025, Q1 2025, Q4 2024,
\* Q3 2024, Q2 2024, in this order) matches a detected column, the target
\* column is a detected column matched by the earliest such entry, wherever
\* the columns stand in the text and whatever else was detected, and its
\* columnIndex is its place (from 0) among the detected columns in the
\* order of their offsets.
C6_TargetColumn ==
    Parsed =>
        LET cols == plocals.quarterColumns
            t == plocals.targetColumn
        IN /\ [p \in 1..Len(quarterPriority) |-> quarterPriority[p].name]
                  = <<"Q2 2025", "Q1 2025", "Q4 2024", "Q3 2024", "Q2 2024">>
           /\ Len(cols) = Cardinality(HeaderTokens(ptext))
           /\ (\E p \in 1..Len(quarterPriority) : Listed(p)) =>
                 LET first == CHOOSE p \in 1..Len(quarterPriority) :
                                  Listed(p) /\ \A h \in 1..(p - 1) : ~Listed(h)
                 IN /\ PatternTest(quarterPriority[first], t.dateRange)
                    /\ \E n \in 1..Len(cols) :
                          /\ cols[n].dateRange = t.dateRange
                          /\ cols[n].position = t.position
                    /\ t.columnIndex =
                          Cardinality({n \in 1..Len(cols) : cols[n].position < t.position})

C6_Witness ==
    /\ Parsed
    /\ Len(plocals.quarterColumns) >= 4
    /\ plocals.targetColumn.columnIndex = 3
    /\ plocals.targetColumn.dateRange = "1/1/25-3/31/25"
    /\ plocals.quarterColumns[1].dateRange = "7/1/24 - 9/30/24"
    /\ plocals.quarterColumns[3].dateRange = "1/1/24 - 3/31/24"

NoHeader == plocals.quarterColumns = <<>>

Numbers(i) == extractAllNumbersFromLine(ptext[i])

\* the lines the fallback reads after line i
Following(i) == (i + 1)..Min(i + 4, Len(ptext))

\* a Total Income or Total Expenses line with numeric tokens on it or on
\* one of the lines after it
RowWithTokens(label) ==
    \E i \in 1..Len(ptext) :
        /\ LineHas(ptext[i], label)
        /\ \E j \in {i} \cup Following(i) : Numbers(j) # <<>>

\* C7 as stated: with both rows and no date-range header, revenue, expenses
\* and netIncome are populated, and netIncome = revenue - expenses
\* whenever revenue and expenses are present.
C7_AsStated ==
    (Parsed /\ NoHeader) =>
        /\ (RowWithTokens("Total Income") /\ RowWithTokens("Total Expenses")) =>
              Has(pdata, "revenue") /\ Has(pdata, "expenses") /\ Has(pdata, "netIncome")
        /\ (Has(pdata, "revenue") /\ Has(pdata, "expenses")) =>
              /\ Has(pdata, "netIncome")
              /\ pdata.netIncome = pdata.revenue - pdata.expenses

\* the token the fallback takes for revenue: the second to last of three
\* or more, else the last
Selected(values) ==
    IF Len(values) >= 3 THEN values[Len(values) - 1] ELSE values[Len(values)]

RevenueRow(i) ==
    /\ LineHas(ptext[i], "Total Income")
    /\ \E j \in Following(i) :
          Len(Numbers(j)) >= 2 /\ Selected(Numbers(j)) > MagnitudeFloor

ExpensesRow(i) ==
    /\ LineHas(ptext[i], "Total Expenses")
    /\ \E j \in Following(i) :
          /\ Len(Numbers(j)) >= 2
          /\ \E n \in 1..Len(Numbers(j)) : Abs(Numbers(j)[n]) > MagnitudeFloor

NetRow(i) ==
    /\ LineHas(ptext[i], "Net")
    /\ ~LineHas(ptext[i], "Total") /\ ~LineHas(ptext[i], "Income")
    /\ Len(Numbers(i)) >= 1
    /\ Abs(Numbers(i)[1]) > MagnitudeFloor

\* C7, amended: with no date-range header, revenue is populated exactly
\* when one of the four lines after a Total Income line has two or more
\* numeric tokens of which the second to last (the last, of two) is above
\* 1000, and expenses exactly when one of the four lines after a Total
\* Expenses line has two or more numeric tokens, one of them above 1000 in
\* magnitude; with both populated netIncome is present, and it is
\* revenue - expenses unless a line with Net, and without Total or Income,
\* carries a first token above 1000 in magnitude, which is then netIncome.
C7_Fallback ==
    (Parsed /\ NoHeader) =>
        /\ Has(pdata, "revenue") <=> \E i \in 1..Len(ptext) : RevenueRow(i)
        /\ Has(pdata, "expenses") <=> \E i \in 1..Len(ptext) : ExpensesRow(i)
        /\ (Has(pdata, "revenue") /\ Has(pdata, "expenses")) => Has(pdata, "netIncome")
        /\ (/\ Has(pdata, "revenue") /\ Has(pdata, "expenses")
            /\ \A i \in 1..Len(ptext) : ~NetRow(i)) =>
              pdata.netIncome = pdata.revenue - pdata.expenses
        /\ \A i \in 1..Len(ptext) :
              (NetRow(i) /\ \A h \in (i + 1)..Len(ptext) : ~NetRow(h)) =>
                  /\ Has(pdata, "netIncome")
                  /\ pdata.netIncome = Numbers(i)[1]

C7_Witness ==
    /\ Parsed /\ NoHeader
    /\ \E i \in 1..Len(ptext) : RevenueRow(i)
    /\ \E i \in 1..Len(ptext) : ExpensesRow(i)
    /\ \A i \in 1..Len(ptext) : ~NetRow(i)
    /\ pdata.revenue = 4000 /\ pdata.expenses = 1800 /\ pdata.netIncome = 2200

\* C8: in every parse result expenses, when present, and every expense
\* metric is non-negative, on the primary and on the fallback path; a
\* Total Expenses row of ($v) tokens gives expenses = v for the v at the
\* target column.
C8_ExpensesNonNegative ==
    Parsed =>
        /\ Has(pdata, "expenses") => pdata.expenses >= 0
        /\ \A n \in 1..Len(expenseItems) :
              HasMetric(pdata, expenseItems[n].metric) =>
                  pdata.customMetrics[expenseItems[n].metric] >= 0
        /\ \A i \in 1..Len(ptext) :
              (/\ ~NoHeader
               /\ LineHas(ptext[i], "Total Expenses")
               /\ \A h \in (i + 1)..Len(ptext) : ~LineHas(ptext[h], "Total Expenses")
               /\ Len(ptext[i]) >= plocals.targetColumn.columnIndex + 2
               /\ \A j \in 2..Len(ptext[i]) : ptext[i][j].k = "dpar") =>
                  /\ Has(pdata, "expenses")
                  /\ pdata.expenses = ptext[i][plocals.targetColumn.columnIndex + 2].v

C8_Witness ==
    /\ Parsed /\ ~NoHeader
    /\ Has(pdata, "expenses") /\ pdata.expenses = 125189
    /\ HasMetric(pdata, "expense_team") /\ pdata.customMetrics["expense_team"] = 800

\* the last line of the balance-sheet section with a SYM (q @ $v) token
LastHolding(lines, sym) ==
    LET With == {i \in 1..Len(lines) :
                    \E j \in 1..Len(lines[i]) :
                        lines[i][j].k = "hold" /\ lines[i][j].s = sym}
    IN IF With = {} THEN 0 ELSE CHOOSE i \in With : \A h \in With : h <= i

\* C9: the holdings, price and value metrics of ETH and of ENS are stored
\* together, from a SYM (q @ $v) line of the balance-sheet section: holdings
\* q, price v and value q * v, so value = holdings * price in every parse
\* result.
C9_Holdings ==
    Parsed =>
        \A a \in {<<"ETH", EthMetrics>>, <<"ENS", EnsMetrics>>} :
            LET sym == a[1]
                names == a[2]
                m == balanceSheetMatch(ptext)
            IN /\ (\/ HasMetric(pdata, names.holdings)
                   \/ HasMetric(pdata, names.price)
                   \/ HasMetric(pdata, names.value)) =>
                     /\ HasMetric(pdata, names.holdings)
                     /\ HasMetric(pdata, names.price)
                     /\ HasMetric(pdata, names.value)
                     /\ pdata.customMetrics[names.value]
                            = pdata.customMetrics[names.holdings]
                                  * pdata.customMetrics[names.price]
               /\ (m.found /\ LastHolding(m.lines, sym) # 0) =>
                     LET line == m.lines[LastHolding(m.lines, sym)]
                         tok == line[FirstToken(line, 1, sym)]
                     IN /\ HasMetric(pdata, names.value)
                        /\ pdata.customMetrics[names.holdings] = tok.q
                        /\ pdata.customMetrics[names.price] = tok.v
                        /\ pdata.customMetrics[names.value] = tok.q * tok.v

C9_Witness ==
    /\ Parsed
    /\ HasMetric(pdata, "eth_value") /\ HasMetric(pdata, "ens_value")
    /\ pdata.customMetrics["eth_holdings"] = 61
    /\ pdata.customMetrics["eth_price"] = 3332
    /\ pdata.customMetrics["eth_value"] = 203252
    /\ pdata.customMetrics["ens_value"] = 141570

(***************************************************************************)
(* Properties of overlapping calls, under SpecConc.                        *)
(***************************************************************************)
\* caller c's call ends its extraction in this step
Finishes(c) ==
    calls[c].op = "process" /\ calls[c].pc = "ocr" /\ calls'[c].pc = "done"

C11_Inv ==
    \A c \in Callers :
        (Forced(c) /\ calls[c].pc \in {"ocr", "done"}) =>
            /\ calls[c].issued = StoredReport(c).imageUrls
            /\ Len(calls[c].images) = Len(StoredReport(c).imageUrls)

C11_Step ==
    /\ \A c \in Callers :
          Finishes(c) =>
              /\ getReportByQuarter(reports', calls[c].quarter, calls[c].year)[1].extractedData
                     = parseFinancialData(Join(Contributions(c)))
              /\ calls'[c].ret.report[1].extractedData
                     = parseFinancialData(Join(Contributions(c)))
    /\ reports' # reports => \E c \in Callers : Finishes(c)

\* C11: overlapping forced calls for one key are neither locked out nor
\* merged: each sends its own OCR requests for the report's images, each
\* writes its own result when its extraction ends, and nothing else
\* writes, so the stored extractedData is that of the call that ended last.
C11_LastWriterWins == []C11_Inv /\ [][C11_Step]_vars

C11_Witness ==
    \E c, d \in Callers :
        /\ c # d
        /\ Forced(c) /\ Forced(d)
        /\ calls[c].quarter = calls[d].quarter /\ calls[c].year = calls[d].year
        /\ calls[c].pc = "done" /\ calls[d].pc = "done"
        /\ calls[c].issued # <<>> /\ calls[d].issued # <<>>
        /\ calls[c].ret.report[1].extractedData # calls[d].ret.report[1].extractedData
        /\ StoredReport(c).extractedData = calls[d].ret.report[1].extractedData

\* caller c's call is over and ran extractDataFromImages
Wrote(c) ==
    calls[c].op = "process" /\ calls[c].pc = "done" /\ calls[c].images # <<>>

C12_Inv ==
    /\ Len(reports) = Len(initializeReports)
    /\ \A i \in 1..Len(reports) :
          \/ reports[i].value.extractedData = initializeReports[i].value.extractedData
          \/ \E c \in Callers :
                /\ Wrote(c)
                /\ Key(calls[c].quarter, calls[c].year) = reports[i].key
                /\ reports[i].value.extractedData
                       = parseFinancialData(Join(Contributions(c)))

C12_Step ==
    \A c \in Callers :
        Finishes(c) =>
            /\ Len(reports') = Len(reports)
            /\ \A i \in 1..Len(reports) :
                  reports[i].key # Key(calls[c].quarter, calls[c].year) =>
                      reports'[i] = reports[i]

\* C12: in every interleaving of overlapping calls, a call that ends
\* leaves the report of every other key as it was, and the extractedData
\* stored for a key is the seeded one or the result of a call for that
\* very key: the calls for other keys have no part in it.
C12_KeysIndependent == []C12_Inv /\ [][C12_Step]_vars

C12_Witness ==
    \E c, d \in Callers :
        /\ Wrote(c) /\ Wrote(d)
        /\ calls[c].quarter # calls[d].quarter
        /\ StoredReport(c).extractedData = calls[c].ret.report[1].extractedData
        /\ StoredReport(d).extractedData = calls[d].ret.report[1].extractedData
        /\ Has(StoredReport(c).extractedData, "revenue")
        /\ Has(StoredReport(d).extractedData, "assets")
        /\ \A i \in 1..Len(reports) :
              reports[i].key \in {Key(calls[c].quarter, calls[c].year),
                                  Key(calls[d].quarter, calls[d].year)} =>
                  reports[i].value.extractedData
                      # initializeReports[i].value.extractedData

(***************************************************************************)
(* Properties of the OCR phase, under Spec.                                *)
(***************************************************************************)
\* the number of lines of the blob before the contribution of image i
RECURSIVE Before(_, _)
Before(values, i) ==
    IF i = 1 THEN 0 ELSE Before(values, i - 1) + Len(values[i - 1]) + 1

\* C13: the blob handed to the parser holds the contribution of each image
\* at the place of the image in the report's image list, whatever the
\* order in which the images settled, a failed image being there as the
\* empty string, with one blank-line separator between neighbours: n - 1
\* separators for n images.
C13_BlobOrder ==
    \A c \in Callers :
        Extracted(c) =>
            LET values == Contributions(c)
                n == Len(values)
                blob == calls[c].ret.report[1].extractedData.rawText
            IN /\ n = Len(StoredReport(c).imageUrls)
               /\ \A i \in 1..n :
                     /\ calls[c].images[i].url = StoredReport(c).imageUrls[i]
                     /\ SubSeq(blob, Before(values, i) + 1,
                               Before(values, i) + Len(values[i])) = values[i]
                     /\ i > 1 => blob[Before(values, i)] = EmptyLine
               /\ Len(blob) = Before(values, n) + Len(values[n])

C13_Witness ==
    \E c \in Callers :
        /\ Extracted(c)
        /\ Len(calls[c].images) = 2
        /\ calls[c].images[2].order = 1 /\ calls[c].images[1].order = 2
        /\ calls[c].images[1].value = PageIncome
        /\ calls[c].images[2].value = PageBalance
        /\ calls[c].ret.report[1].extractedData.rawText
               = PageIncome \o <<EmptyLine>> \o PageBalance

(***************************************************************************)
(* Properties of the timers, under SpecTimed.                              *)
(***************************************************************************)
C14_Inv ==
    \A c \in Callers :
        /\ calls[c].pc = "ocr" => calls[c].clock <= TimeoutAfter
        /\ \A i \in DOMAIN calls[c].images :
              LET img == calls[c].images[i]
              IN /\ img.winner = "none" => calls[c].clock <= TimeoutAfter
                 /\ (img.winner = "none" /\ calls[c].clock > AbortAfter) =>
                       img.ocr = "reading"
                 /\ img.winner = "timeout" =>
                       calls[c].clock >= TimeoutAfter /\ img.ocr # "fetching"

C14_Step ==
    \A c \in Callers :
        \A i \in DOMAIN calls[c].images :
            LET img == calls[c].images[i]
            IN (img.winner = "none" /\ calls'[c].images[i].winner # "none") =>
                  /\ calls[c].clock <= TimeoutAfter
                  /\ calls'[c].images[i].winner = "timeout" =>
                        calls[c].clock = TimeoutAfter /\ img.ocr = "reading"
                  /\ (img.ocr = "fetching" /\ calls[c].clock = AbortAfter) =>
                        /\ calls'[c].images[i].winner = "ocr"
                        /\ calls'[c].images[i].value = EmptyText
                        /\ calls'[c].images[i].ocr = "threw"

\* C14: every image is settled at most 15 units after its dispatch,
\* whatever the endpoint does: an image with no response after 12 units
\* is settled as a failure by the abort, before the 15-unit timer; that
\* timer settles an image only at 15 units and only while the body of a
\* response that did start is still being read; so the OCR phase of a
\* call is over by 15 units.
C14_Deadlines == []C14_Inv /\ [][C14_Step]_vars

C14_Witness ==
    \E c \in Callers :
        /\ calls[c].pc = "done" /\ calls[c].clock = TimeoutAfter
        /\ \E i, j \in DOMAIN calls[c].images :
              /\ calls[c].images[i].winner = "timeout"
              /\ calls[c].images[i].ocr = "reading"
              /\ calls[c].images[i].order = 2
              /\ calls[c].images[j].winner = "ocr"
              /\ calls[c].images[j].ocr = "threw"
              /\ calls[c].images[j].order = 1

C15_Inv ==
    \A c \in Callers :
        /\ \A i \in DOMAIN calls[c].images :
              LET img == calls[c].images[i]
              IN /\ img.winner = "timeout" => img.value = EmptyText
                 /\ (img.winner = "ocr" /\ img.ocr = "returned") => img.value = img.text
        /\ Extracted(c) =>
              /\ calls[c].ret.report[1].extractedData.rawText = Join(Contributions(c))
              /\ StoredReport(c).extractedData.rawText = Join(Contributions(c))

C15_Step ==
    \A c \in Callers :
        \A i \in (DOMAIN calls[c].images) \cap (DOMAIN calls'[c].images) :
            calls[c].images[i].winner # "none" =>
                /\ calls'[c].images[i].winner = calls[c].images[i].winner
                /\ calls'[c].images[i].value = calls[c].images[i].value

\* C15: what an image contributes is fixed when it settles.  After the 15 s
\* timer has settled it, it contributes the empty string, and a response
\* that arrives later shows neither in the blob, nor in rawText, nor in the
\* stored extractedData; after its OCR call has succeeded, the timer that
\* fires later leaves its contribution as it is.
C15_SettledOnce == []C15_Inv /\ [][C15_Step]_vars

C15_Witness ==
    \E c \in Callers :
        /\ Extracted(c)
        /\ \E i, j \in DOMAIN calls[c].images :
              /\ calls[c].images[i].winner = "timeout"
              /\ calls[c].images[i].ocr = "returned"
              /\ calls[c].images[i].text = PageIncome
              /\ calls[c].images[i].value = EmptyText
              /\ calls[c].images[j].winner = "ocr"
              /\ calls[c].images[j].timer = "fired"
              /\ calls[c].images[j].value = PageBalance
        /\ NoLineHas(StoredReport(c).extractedData.rawText, "Total Income")
        /\ ~Has(StoredReport(c).extractedData, "revenue")

\* the OCR call of the image failed or was timed out
Failed(img) ==
    \/ img.winner = "timeout"
    \/ img.winner = "ocr" /\ img.ocr = "threw"

\* C16: the store is changed only by a successful extraction: a forced
\* call in which the OCR call of every image fails or times out leaves
\* the stored extractedData as it was.
C16_OnlySuccessWrites ==
    [][ /\ \A c \in Callers :
              (/\ Finishes(c) /\ calls[c].forceRefresh
               /\ \A i \in DOMAIN calls[c].images : Failed(calls[c].images[i])) =>
                  reports' = reports
        /\ reports' # reports =>
              \E c \in Callers :
                  /\ Finishes(c)
                  /\ \E i \in DOMAIN calls[c].images : ~Failed(calls[c].images[i])
      ]_vars

\* the offsets of the header tokens of the text
HeaderOffsets ==
    { LineStart(ptext, h[1]) + h[2] - 1 : h \in HeaderTokens(ptext) }

\* C18: with one or more detected columns of which no priority entry
\* matches any, the target is the header of the greatest offset in the
\* text, the last of the offset-sorted columns, and its columnIndex is the
\* number of detected columns - 1.
C18_LastColumn ==
    (Parsed /\ ~NoHeader /\ \A p \in 1..Len(quarterPriority) : ~Listed(p)) =>
        LET cols == plocals.quarterColumns
            t == plocals.targetColumn
        IN /\ t.columnIndex = Len(cols) - 1
           /\ t.position \in HeaderOffsets
           /\ \A o \in HeaderOffsets : o <= t.position
           /\ \E h \in HeaderTokens(ptext) :
                 /\ LineStart(ptext, h[1]) + h[2] - 1 = t.position
                 /\ ptext[h[1]][h[2]].s = t.dateRange
           /\ cols[Len(cols)].position = t.position

\* the last column by offset was detected before the first one
C18_Witness ==
    /\ Parsed
    /\ \A p \in 1..Len(quarterPriority) : ~Listed(p)
    /\ Len(plocals.quarterColumns) >= 3
    /\ plocals.quarterColumns[1].dateRange = "Through 2024"
    /\ plocals.targetColumn.dateRange = "1/1/24 - 3/31/24"
    /\ plocals.targetColumn.columnIndex = Len(plocals.quarterColumns) - 1

\* the lines extractValueAtPosition reads for a row at line i
Window(i) == i..Min(i + 2, Len(ptext))

\* a line with the label that has a numeric token in its window
PositionalRow(label) ==
    \E i \in 1..Len(ptext) :
        LineHas(ptext[i], label) /\ \E j \in Window(i) : Numbers(j) # <<>>

LineItemMetrics ==
    {incomeItems[n].metric : n \in 1..Len(incomeItems)}
        \cup {expenseItems[n].metric : n \in 1..Len(expenseItems)}

\* C17: the fallback runs exactly when no column was detected.  With no
\* column nothing is read positionally and no line item is extracted:
\* revenue and expenses follow the fallback's criteria alone.  With one or
\* more columns the fallback is not run, even when the totals loop found
\* no value: revenue and expenses follow the positional criterion alone,
\* and a Net line gives no netIncome.
C17_FallbackOnlyWithoutColumns ==
    Parsed =>
        /\ NoHeader =>
              /\ plocals.targetColumn = NoTarget
              /\ DOMAIN pdata["customMetrics"] \cap LineItemMetrics = {}
              /\ Has(pdata, "revenue") <=> \E i \in 1..Len(ptext) : RevenueRow(i)
              /\ Has(pdata, "expenses") <=> \E i \in 1..Len(ptext) : ExpensesRow(i)
        /\ ~NoHeader =>
              /\ plocals.targetColumn # NoTarget
              /\ Has(pdata, "revenue") <=> PositionalRow("Total Income")
              /\ Has(pdata, "expenses") <=> PositionalRow("Total Expenses")
              /\ Has(pdata, "netIncome") =>
                    Has(pdata, "revenue") /\ Has(pdata, "expenses")

\* a column was detected, the totals loop found nothing, and the fallback
\* would have found revenue
C17_Witness ==
    /\ Parsed /\ ~NoHeader
    /\ \E i \in 1..Len(ptext) : RevenueRow(i)
    /\ ~Has(pdata, "revenue") /\ ~Has(pdata, "expenses")

\* the magnitudes of the numeric tokens in the windows of the lines with
\* the label
RowMagnitudes(label) ==
    UNION { UNION { { Abs(Numbers(j)[n]) : n \in 1..Len(Numbers(j)) } :
                    j \in Window(i) } :
            i \in {i \in 1..Len(ptext) : LineHas(ptext[i], label)} }

\* C19: after parsing a text with one or more detected columns, netIncome
\* is present exactly when revenue and expenses both are, and is then
\* revenue - expenses; revenue is the magnitude of a token read for a
\* Total Income line and expenses that of one read for a Total Expenses
\* line.
C19_NetIncomeDerived ==
    (Parsed /\ ~NoHeader) =>
        /\ Has(pdata, "netIncome") <=> (Has(pdata, "revenue") /\ Has(pdata, "expenses"))
        /\ Has(pdata, "netIncome") =>
              pdata.netIncome = pdata.revenue - pdata.expenses
        /\ Has(pdata, "revenue") => pdata.revenue \in RowMagnitudes("Total Income")
        /\ Has(pdata, "expenses") => pdata.expenses \in RowMagnitudes("Total Expenses")

C19_Witness ==
    /\ Parsed /\ ~NoHeader
    /\ Has(pdata, "revenue") /\ Has(pdata, "expenses") /\ Has(pdata, "netIncome")
    /\ pdata.revenue = 3000 /\ pdata.expenses = 1500
    /\ pdata.netIncome = 1500

\* line i has a numeric token in its window
Valued(i) == \E j \in Window(i) : Numbers(j) # <<>>

\* the value read for the row at line i: the target column's token of the
\* first line of the window that has a numeric token
Decided(i) ==
    LET j == CHOOSE j \in Window(i) :
                 Numbers(j) # <<>> /\ \A h \in i..(j - 1) : Numbers(h) = <<>>
    IN ValueOfLine(Numbers(j), plocals.targetColumn)

\* the lines that are rows of the field or metric
RowsOf(field) ==
    IF field = "revenue"
    THEN {i \in 1..Len(ptext) : LineHas(ptext[i], "Total Income")}
    ELSE {i \in 1..Len(ptext) :
             \E n \in 1..Len(expenseItems) :
                 /\ expenseItems[n].metric = field
                 /\ LineHas(ptext[i], expenseItems[n].key)
                 /\ ~LineHas(ptext[i], "Total")}

\* C20: for a row at line i only lines i, i+1 and i+2, as far as the text
\* goes, are read, and the first of them with a numeric token decides the
\* value.  The revenue field and every expense metric are set exactly when
\* one of their rows has a token in its window, to the magnitude of the
\* value decided for the last such row, 0 included; otherwise they are
\* unset.
C20_ScanWindow ==
    (Parsed /\ ~NoHeader) =>
        /\ Has(pdata, "revenue") <=> \E i \in RowsOf("revenue") : Valued(i)
        /\ \A i \in RowsOf("revenue") :
              (Valued(i) /\ \A h \in RowsOf("revenue") : h > i => ~Valued(h)) =>
                  pdata.revenue = Abs(Decided(i))
        /\ \A n \in 1..Len(expenseItems) :
              LET m == expenseItems[n].metric
              IN /\ HasMetric(pdata, m) <=> \E i \in RowsOf(m) : Valued(i)
                 /\ \A i \in RowsOf(m) :
                       (Valued(i) /\ \A h \in RowsOf(m) : h > i => ~Valued(h)) =>
                           pdata["customMetrics"][m] = Abs(Decided(i))

\* a Total Income row whose value stands two lines below it, and a Team row
\* whose nearest numeric token stands three lines below it
C20_Witness ==
    /\ Parsed /\ ~NoHeader
    /\ \E i \in RowsOf("revenue") :
          /\ i + 2 <= Len(ptext)
          /\ Numbers(i) = <<>> /\ Numbers(i + 1) = <<>> /\ Numbers(i + 2) # <<>>
    /\ Has(pdata, "revenue") /\ pdata.revenue = 2000
    /\ \E i \in RowsOf("expense_team") :
          /\ i + 3 <= Len(ptext)
          /\ ~Valued(i) /\ Numbers(i + 3) # <<>>
    /\ ~HasMetric(pdata, "expense_team")

(***************************************************************************)
(* Properties of the numeric tokens of a line, under SpecParse.            *)
(***************************************************************************)
\* the values written on a line, from the left: $v is v; (v), ($v) and
\* $(v) are -v; the price of a holding is v
RECURSIVE Written(_)
Written(line) ==
    IF line = <<>> THEN <<>>
    ELSE (IF Head(line).k \in {"cur", "hold"} THEN <<Head(line).v>>
          ELSE IF Head(line).k \in {"par", "dpar", "pard"} THEN <<-Head(line).v>>
          ELSE <<>>)
         \o Written(Tail(line))

\* the line that decides the value of the row at line i
Deciding(i) ==
    CHOOSE j \in Window(i) : Numbers(j) # <<>> /\ \A h \in i..(j - 1) : Numbers(h) = <<>>

\* the rows of the n-th income item
IncomeRows(n) == {i \in 1..Len(ptext) : LineHas(ptext[i], incomeItems[n].key)}

\* C21: when the deciding line of a row has columnIndex + 1 or more numeric
\* tokens, the value read for the row is the value written in the row's
\* column number columnIndex, counted from the left from 0.  Stated for the
\* income metrics, which keep the sign of the value read.
C21_ColumnValue ==
    (Parsed /\ ~NoHeader) =>
        \A n \in 1..Len(incomeItems) : \A i \in IncomeRows(n) :
            (/\ Valued(i) /\ \A h \in IncomeRows(n) : h > i => ~Valued(h)
             /\ Len(Numbers(Deciding(i))) > plocals.targetColumn.columnIndex
             /\ Len(Written(ptext[Deciding(i)])) > plocals.targetColumn.columnIndex) =>
                pdata["customMetrics"][incomeItems[n].metric]
                    = Written(ptext[Deciding(i)])[plocals.targetColumn.columnIndex + 1]

\* C22: every value written on a line becomes exactly one numeric token:
\* $v becomes v; (v) and ($v) become the one number -v; a token that is
\* neither currency-prefixed nor parenthesized gives none.
C22_OneTokenPerValue ==
    Parsed =>
        \A i \in 1..Len(ptext) :
            /\ Len(Numbers(i)) = Len(Written(ptext[i]))
            /\ \A j \in 1..Len(ptext[i]) :
                  LET tok == ptext[i][j]
                      values == extractAllNumbersFromLine(<<tok>>)
                  IN /\ tok.k = "cur" => values = <<tok.v>>
                     /\ tok.k \in {"par", "dpar"} => values = <<-tok.v>>
                     /\ tok.k \in {"w", "range", "through"} => values = <<>>

\* the rows of a catalog label that do not contain Total
PlainRows(key) ==
    {i \in 1..Len(ptext) : LineHas(ptext[i], key) /\ ~LineHas(ptext[i], "Total")}

\* C23: no line-item metric is taken from a line that contains Total: an
\* income or expense metric is set exactly when a line with its label and
\* without Total has a value in its window, and it is then the value read
\* for the last such line.
C23_TotalLinesSkipped ==
    (Parsed /\ ~NoHeader) =>
        /\ \A n \in 1..Len(incomeItems) :
              LET rows == PlainRows(incomeItems[n].key)
                  m == incomeItems[n].metric
              IN /\ HasMetric(pdata, m) <=> \E i \in rows : Valued(i)
                 /\ \A i \in rows :
                       (Valued(i) /\ \A h \in rows : h > i => ~Valued(h)) =>
                           pdata["customMetrics"][m] = Decided(i)
        /\ \A n \in 1..Len(expenseItems) :
              LET rows == PlainRows(expenseItems[n].key)
                  m == expenseItems[n].metric
              IN /\ HasMetric(pdata, m) <=> \E i \in rows : Valued(i)
                 /\ \A i \in rows :
                       (Valued(i) /\ \A h \in rows : h > i => ~Valued(h)) =>
                           pdata["customMetrics"][m] = Abs(Decided(i))

(***************************************************************************)
(* Properties of extractWithFallback, under SpecParse.                     *)
(***************************************************************************)
\* the first token of the line that is above the floor in magnitude
FirstLarge(values) ==
    values[CHOOSE n \in 1..Len(values) :
               /\ Abs(values[n]) > MagnitudeFloor
               /\ \A h \in 1..(n - 1) : Abs(values[h]) <= MagnitudeFloor]

\* line j gives the revenue of a Total Income line
GivesRevenue(j) == Len(Numbers(j)) >= 2 /\ Selected(Numbers(j)) > MagnitudeFloor

\* line j gives the expenses of a Total Expenses line
GivesExpenses(j) ==
    /\ Len(Numbers(j)) >= 2
    /\ \E n \in 1..Len(Numbers(j)) : Abs(Numbers(j)[n]) > MagnitudeFloor

\* C24 as stated: in the fallback the value taken for Total Income, Total
\* Expenses and Net is the second to last token of a line of three or more
\* tokens and the last token otherwise, and it is stored only if its
\* magnitude is above 1000.
C24_AsStated ==
    (Parsed /\ NoHeader) =>
        /\ Has(pdata, "revenue") =>
              \E i \in 1..Len(ptext) : \E j \in Following(i) :
                  /\ LineHas(ptext[i], "Total Income") /\ Numbers(j) # <<>>
                  /\ Abs(Selected(Numbers(j))) > MagnitudeFloor
                  /\ pdata.revenue = Abs(Selected(Numbers(j)))
        /\ Has(pdata, "expenses") =>
              \E i \in 1..Len(ptext) : \E j \in Following(i) :
                  /\ LineHas(ptext[i], "Total Expenses") /\ Numbers(j) # <<>>
                  /\ Abs(Selected(Numbers(j))) > MagnitudeFloor
                  /\ pdata.expenses = Abs(Selected(Numbers(j)))
        /\ (\E i \in 1..Len(ptext) : NetRow(i)) =>
              \E i \in 1..Len(ptext) :
                  /\ LineHas(ptext[i], "Net") /\ Numbers(i) # <<>>
                  /\ Abs(Selected(Numbers(i))) > MagnitudeFloor
                  /\ pdata.netIncome = Selected(Numbers(i))

\* C24, amended: in the fallback, revenue is, of the first line after the
\* last giving Total Income line that has two or more tokens with the
\* second to last (the last, of two) above 1000, that token; expenses is
\* the magnitude of the first token above 1000 in magnitude of the first
\* line after the last giving Total Expenses line that has two or more
\* tokens and such a token; netIncome is the first token of the last Net
\* line whose first token is above 1000 in magnitude.  Nothing at or below
\* the floor is stored for revenue or expenses.
C24_FallbackSelection ==
    (Parsed /\ NoHeader) =>
        /\ \A i \in 1..Len(ptext) :
              (RevenueRow(i) /\ \A h \in (i + 1)..Len(ptext) : ~RevenueRow(h)) =>
                  LET j == CHOOSE j \in Following(i) :
                               GivesRevenue(j)
                                   /\ \A h \in (i + 1)..(j - 1) : ~GivesRevenue(h)
                  IN pdata.revenue = Selected(Numbers(j))
        /\ \A i \in 1..Len(ptext) :
              (ExpensesRow(i) /\ \A h \in (i + 1)..Len(ptext) : ~ExpensesRow(h)) =>
                  LET j == CHOOSE j \in Following(i) :
                               GivesExpenses(j)
                                   /\ \A h \in (i + 1)..(j - 1) : ~GivesExpenses(h)
                  IN pdata.expenses = Abs(FirstLarge(Numbers(j)))
        /\ \A i \in 1..Len(ptext) :
              (NetRow(i) /\ \A h \in (i + 1)..Len(ptext) : ~NetRow(h)) =>
                  pdata.netIncome = Numbers(i)[1] /\ Abs(pdata.netIncome) > MagnitudeFloor
        /\ Has(pdata, "revenue") => pdata.revenue > MagnitudeFloor
        /\ Has(pdata, "expenses") => pdata.expenses > MagnitudeFloor

\* expenses taken from the first of two tokens while the last is below the
\* floor, and netIncome from the first of two tokens of a Net line
C24_Witness ==
    /\ Parsed /\ NoHeader
    /\ \E j \in 1..Len(ptext) : Numbers(j) = <<-2600, -300>>
    /\ Has(pdata, "expenses") /\ pdata.expenses = 2600
    /\ \E i \in 1..Len(ptext) : NetRow(i) /\ Numbers(i) = <<6100, 13500>>
    /\ Has(pdata, "netIncome") /\ pdata.netIncome = 6100

(***************************************************************************)
(* Properties of parseBalanceSheet, under SpecParse.                       *)
(***************************************************************************)
Section == balanceSheetMatch(ptext)

\* the amount a section line gives to the stablecoin metric (0: none)
StableAmount(line, metric) ==
    LET d == StablecoinOfLine(line, [customMetrics |-> NoMetrics])
    IN IF HasMetric(d, metric) THEN d["customMetrics"][metric] ELSE 0

RECURSIVE StableSum(_, _)
StableSum(lines, metric) ==
    IF lines = <<>> THEN 0
    ELSE StableAmount(Head(lines), metric) + StableSum(Tail(lines), metric)

\* C25: the stablecoin lines of the section accumulate: each holdings
\* metric is the sum of the amounts of all the section's lines that match
\* it, not the amount of the last of them.
C25_StablecoinsAccumulate ==
    (Parsed /\ Section.found) =>
        \A m \in {"usdc_holdings", "usdcx_holdings"} :
            HasMetric(pdata, m) => pdata["customMetrics"][m] = StableSum(Section.lines, m)

(***************************************************************************)
(* Properties of overlapping calls for one report, under SpecOverlap.      *)
(***************************************************************************)
\* the image list caller c's extraction ran over
ImageList(c) == [i \in 1..Len(calls[c].images) |-> calls[c].images[i].url]

C26_Inv ==
    /\ Len(reports) = Len(reportsData)
    /\ \A i \in 1..Len(reports) : Has(reports[i].value, "extractedData")
    /\ \A i \in 1..Len(reports) :
          /\ reports[i].key = Key(reportsData[i].quarter, reportsData[i].year)
          /\ reports[i].value.imageUrls = reportsData[i].imageUrls
          /\ \/ reports[i].value.extractedData = reportsData[i].extractedData
             \/ \E c \in Callers :
                   /\ Wrote(c)
                   /\ Key(calls[c].quarter, calls[c].year) = reports[i].key
                   /\ ImageList(c) = reports[i].value.imageUrls
                   /\ reports[i].value.extractedData
                          = parseFinancialData(Join(Contributions(c)))

C26_Step ==
    \A i \in 1..Len(reports) :
        reports'[i] # reports[i] =>
            \E c \in Callers :
                /\ Finishes(c)
                /\ \A j \in 1..Len(calls[c].images) : calls[c].images[j].winner # "none"
                /\ reports'[i].value.extractedData
                       = parseFinancialData(Join(Contributions(c)))

\* C26: in every reachable state, overlapping calls included, every report
\* of the store has its extractedData, and that value is the seeded one or
\* the whole result of one call's extraction over that report's own image
\* list, written in one step when every image of that call was settled:
\* never absent, never parts of two runs, never the result of another key.
C26_WholeResults == []C26_Inv /\ [][C26_Step]_vars

\* two forced calls for the report of two images ended with different
\* contributions for both images; the store holds the result of one
C26_Witness ==
    \E c, d \in Callers :
        /\ c # d /\ Wrote(c) /\ Wrote(d)
        /\ calls[c].quarter = calls[d].quarter /\ calls[c].year = calls[d].year
        /\ Len(calls[c].images) = 2
        /\ \A j \in 1..2 :
              /\ calls[c].images[j].value # calls[d].images[j].value
              /\ calls[c].images[j].value # EmptyText
              /\ calls[d].images[j].value # EmptyText
        /\ calls[c].images[2].order = 1
        /\ StoredReport(c).extractedData = parseFinancialData(Join(Contributions(c)))

(***************************************************************************)
(* Properties of calls without forceRefresh, under Spec.  The tools are    *)
(* their calls of the service: getFinancialReportQuick is GetReport,       *)
(* listFinancialReports is ListReports, compareFinancialReports is         *)
(* ProcessCall without forceRefresh for each quarter, and                  *)
(* getFinancialReport is GetReport followed, when extractedData is absent  *)
(* or forceRefresh is passed, by ProcessCall with its forceRefresh.        *)
(***************************************************************************)
C27_Inv ==
    /\ \A i \in 1..Len(reports) : Has(reports[i].value, "extractedData")
    /\ \A c \in Callers :
          (calls[c].issued # <<>> \/ calls[c].images # <<>>) =>
              calls[c].op = "process" /\ calls[c].forceRefresh

C27_Step ==
    \A c \in Callers :
        (calls'[c] # calls[c] /\ ~calls'[c].forceRefresh) =>
            /\ reports' = reports
            /\ calls'[c].issued = <<>>
            /\ calls'[c].pc \in {"awaitGet", "done"}

\* C27: every stored report has extractedData in every reachable state, so
\* OCR requests are sent only by calls that pass forceRefresh: a
\* processAndCacheReport without forceRefresh, getReportByQuarter and
\* getAvailableReports (and so the four tools without forceRefresh) send
\* no OCR request and leave the store as it is.
C27_NoOcrUnlessForced == []C27_Inv /\ [][C27_Step]_vars

\* a call without forceRefresh after a forced call whose images all failed:
\* it returns the stored empty extraction and sends nothing
C27_Witness ==
    \E c \in Callers :
        /\ calls[c].op = "process" /\ calls[c].pc = "done" /\ ~calls[c].forceRefresh
        /\ calls[c].prev.op = "process" /\ calls[c].prev.forceRefresh
        /\ calls[c].prev.quarter = calls[c].quarter /\ calls[c].prev.year = calls[c].year
        /\ calls[c].issued = <<>>
        /\ calls[c].ret.tag = "report"
        /\ calls[c].ret.report[1].extractedData = parseFinancialData(EmptyText)
        /\ StoredReport(c).extractedData = parseFinancialData(EmptyText)

\* caller a's forced refresh is in flight: its extraction has not ended
InFlight(a) == Forced(a) /\ calls[a].pc = "ocr"

SameKey(a, b) ==
    calls[a].quarter = calls[b].quarter /\ calls[a].year = calls[b].year

\* the seeded extractedData of the key of caller a's call
SeededData(a) == MapGet(initializeReports, Key(calls[a].quarter, calls[a].year))[1].extractedData

C28_Inv ==
    \A a \in Callers :
        (InFlight(a) /\ \A d \in Callers : ~(Wrote(d) /\ SameKey(a, d))) =>
            StoredReport(a).extractedData = SeededData(a)

C28_Step ==
    /\ \A a, b \in Callers :
          (/\ a # b /\ InFlight(a) /\ SameKey(a, b)
           /\ calls[b].op = "process" /\ ~calls[b].forceRefresh
           /\ calls[b].pc = "awaitGet" /\ calls'[b] # calls[b]) =>
              /\ calls'[b].pc = "done"
              /\ calls'[b].ret.tag = "report"
              /\ calls'[b].ret.report[1].extractedData = StoredReport(a).extractedData
              /\ calls'[b].issued = <<>> /\ calls'[b].images = <<>>
              /\ calls'[a] = calls[a]
              /\ reports' = reports
    /\ \A a \in Callers :
          InFlight(a) =>
              \/ StoredReport(a)' = StoredReport(a)
              \/ \E d \in Callers :
                    /\ Finishes(d) /\ SameKey(a, d)
                    /\ StoredReport(a)' .extractedData
                           = parseFinancialData(Join(Contributions(d)))

\* C28: a call without forceRefresh for a key whose forced refresh is in
\* flight returns in its next step the report as stored, sending no OCR
\* request and leaving the refresh as it is; the stored extractedData is
\* the value from before the refresh for as long as no extraction for the
\* key has ended, and changes only in the one step in which an extraction
\* ends, to that extraction's whole result.
C28_ReadsDuringRefresh == []C28_Inv /\ [][C28_Step]_vars

\* the refresh has one image returned and one outstanding; the call
\* without forceRefresh has returned the seeded data
C28_Witness ==
    \E a, b \in Callers :
        /\ a # b /\ InFlight(a) /\ SameKey(a, b)
        /\ Len(calls[a].images) = 2
        /\ calls[a].images[1].winner = "ocr" /\ calls[a].images[1].value # EmptyText
        /\ calls[a].images[2].winner = "none"
        /\ calls[b].op = "process" /\ ~calls[b].forceRefresh /\ calls[b].pc = "done"
        /\ calls[b].issued = <<>>
        /\ calls[b].ret.report[1].extractedData = SeededData(a)
        /\ StoredReport(a).extractedData = SeededData(a)

\* C29: the tokens of a line are its written values in their order from
\* the left, whatever mixture of currency-prefixed and parenthesized values
\* the line has: on a line that gives one token per written value, the
\* k-th token is the k-th written value.
C29_TokensLeftToRight ==
    Parsed =>
        \A i \in 1..Len(ptext) :
            Len(Numbers(i)) = Len(Written(ptext[i])) =>
                \A k \in 1..Len(Numbers(i)) : Numbers(i)[k] = Written(ptext[i])[k]

\* the lines of the text that have the balance-sheet header
HeaderLines == {i \in 1..Len(ptext) : FirstToken(ptext[i], 1, IsHeader) # 0}

\* the fields and metrics parseBalanceSheet sets
BalanceFields == {"assets", "equity", "liabilities"}
BalanceMetrics ==
    {"eth_holdings", "eth_price", "eth_value", "ens_holdings", "ens_price", "ens_value",
     "usdc_holdings", "usdcx_holdings", "unreimbursed_admin_costs"}

\* the part of the data that parseBalanceSheet sets
BalancePart(data) ==
    [fields |-> [f \in (DOMAIN data) \cap BalanceFields |-> data[f]],
     metrics |-> [m \in (DOMAIN data["customMetrics"]) \cap BalanceMetrics |->
                      data["customMetrics"][m]]]

\* the section as described: from the first header to the line before the
\* next blank line, or to the end of the text when no blank line follows
DescribedSection ==
    LET h == CHOOSE h \in HeaderLines : \A g \in HeaderLines : h <= g
        Blank == {e \in (h + 1)..Len(ptext) : ptext[e] = EmptyLine}
        last == IF Blank = {} THEN Len(ptext)
                ELSE (CHOOSE e \in Blank : \A g \in Blank : e <= g) - 1
        from == FirstToken(ptext[h], 1, IsHeader)
    IN <<SubSeq(ptext[h], from, Len(ptext[h]))>> \o SubSeq(ptext, h + 1, last)

\* C30: when the text has the header Summary of Assets & Liabilities, the
\* lines from the header to the next blank line, or to the end of the text
\* when no blank line follows, are parsed, a section that ends the text
\* included; no other line sets a balance-sheet field or metric, and
\* without the header none is set.
C30_SectionToEnd ==
    Parsed =>
        BalancePart(pdata)
            = IF HeaderLines = {}
              THEN BalancePart([customMetrics |-> NoMetrics])
              ELSE BalancePart(BalanceSheetFrom(DescribedSection, 1,
                                                [customMetrics |-> NoMetrics]))

====
